---- MODULE Spec2Model ----
(***************************************************************************)
(* Model of the eatelligence nutrition tracker.                            *)
(*                                                                         *)
(*   Spec     the AI recipe-generation page (working ingredient list,      *)
(*            concurrent resolution of new ingredients, retry, finalize)   *)
(*   SpecSel  the selection-mode recipe page (totals over selected logs)   *)
(*   SpecTgt  the target details modal (calculateAllTargets)               *)
(*                                                                         *)
(* Numbers.  Nutrient amounts are held in tenths of a gram, multipliers in *)
(* hundredths, so a product multiplier x amount is in thousandths of a     *)
(* gram; an absent / null number is NULL.                                  *)
(***************************************************************************)
EXTENDS Integers, Sequences, FiniteSets, TLC

\* ----- bounds of the model ------------------------------------------------
MaxIngredients == 3
MaxInserts == 2
MaxGenerated == 2
MaxGenerations == 1
MaxRetriesInFlight == 1

\* ----- program constants ---------------------------------------------------
NULL == -1

NutrientKeys ==
  {"protein", "fat", "carbs", "fibers", "sugar", "mufa", "pufa", "sfa", "gl", "omega3", "omega6"}

\* the multiplier used when an ingredient carries none (ingredient.multiplier ?? 1)
DefaultMultiplier == 1

\* Math.round(n / d) for d > 0: the nearest integer, halves rounded up
MathRound(n, d) == (2 * n + d) \div (2 * d)

\* (x || 0): null counts as 0
OrZero(x) == IF x = NULL THEN 0 ELSE x

\* ----- the catalog (storage table food_items) ------------------------------
VecOats ==
  [protein |-> 104, fat |-> 67, carbs |-> 583, fibers |-> 101, sugar |-> 9, mufa |-> 21,
   pufa |-> 25, sfa |-> 12, gl |-> 330, omega3 |-> 1, omega6 |-> 24]

VecFlour ==
  [protein |-> 103, fat |-> 12, carbs |-> 727, fibers |-> 27, sugar |-> 3, mufa |-> 1,
   pufa |-> 5, sfa |-> 2, gl |-> NULL, omega3 |-> 0, omega6 |-> 5]

VecMilk ==
  [protein |-> 35, fat |-> 31, carbs |-> 49, fibers |-> 0, sugar |-> 49, mufa |-> 8,
   pufa |-> 1, sfa |-> 19, gl |-> 15, omega3 |-> NULL, omega6 |-> 1]

VecEgg ==
  [protein |-> 126, fat |-> 95, carbs |-> 7, fibers |-> 0, sugar |-> 4, mufa |-> 37,
   pufa |-> 19, sfa |-> 31, gl |-> 0, omega3 |-> 1, omega6 |-> 15]

\* the rows present when the page is mounted (fetchAllFoodItems)
InitialCatalog ==
  (1 :> [name |-> "oats", serving_qty |-> 100, serving_unit |-> "g", nutrition |-> VecOats])

allFoodItems == InitialCatalog

\* ids the language model may name that are not rows of the catalog
UnknownItemIds == {99}

\* the AI collaborator's nutrient vector for a food name
AIResponses(name) ==
  CASE name = "flour" -> {VecFlour}
    [] name = "milk" -> {VecMilk}
    [] OTHER -> {VecEgg}

\* ===========================================================================
\*  The recipe-generation page
\* ===========================================================================
VARIABLES
  generatedIngredients,  \* the working list
  recipeTotals,          \* [count, vec]: what calculateRecipeTotals last stored
  recipeName,
  errorMessage, successMessage,
  isLoadingList, isLoadingRecipe, isFetchingExisting,
  geminiApiKey, showApiKeyInput,
  catalog,               \* storage: id -> row of food_items
  procPhase,             \* processNewIngredients: "none" | "jobs" | "fetch"
  procJobs,              \* original index -> the promise of that ingredient
  fetchIds,              \* existingItemIdsToFetch of the fetch in flight
  retries,               \* the retries in flight, each with the index of its object
  addPending,            \* ids whose addExistingIngredient fetch is in flight
  savePending,           \* <<recipeToInsert>> while the recipe insert is in flight
  generations            \* how many ingredient lists have been asked for

\* the selection-mode recipe page (it has its own recipeName, errorMessage and
\* successMessage, held in the variables of that name, and inserts into catalog)
VARIABLES
  logEntries,            \* the fetched log entries
  selectedLogIds,
  totals,                \* what calculateTotals last stored
  isLoading, isCreating,
  createPending          \* <<newFoodItemData>> while the recipe insert is in flight

\* the target details modal
VARIABLES
  dailyTotals, targets,  \* the props
  calculatedTargets      \* $: calculateAllTargets(targets, dailyTotals)

\* calculateKcal and its caller
VARIABLES
  kcalItem,              \* the item passed to calculateKcal
  kcalResult             \* what it returned

\* the food items page
VARIABLES
  itemTable,             \* storage: the rows of food_items, by name
  nextItemId,            \* storage: the next id of food_items
  foodItems,             \* the page's list
  itemsLoading, itemsError,
  itemEdit,              \* editingItemId, editingProperty, editingValue
  itemsCreating,         \* isCreating
  newItem,
  itemCalls              \* requests in flight

\* the targets settings page
VARIABLES
  targetTable,           \* storage: the rows of nutrition_targets, in fetch order
  nextTargetId,          \* storage: the next id of nutrition_targets
  settingsTargets,       \* the page's targets
  targetsLoading, targetsError,
  absoluteForm,          \* absoluteNutrient, absoluteMin, absoluteMax
  relativeForm,          \* relativeTargetType, relativeMin, relativeMax
  targetCalls            \* requests in flight

\* the log page
VARIABLES
  foodLog,               \* storage: the rows of food_log, newest logged_at first
  nextLogId,             \* storage: the next id of food_log's sequence
  recentLogs,            \* the rows the page has fetched
  currentPage, canLoadMore, loadingLogs, loadingMore,
  logError, isLogging,
  editingLogId, editingProperty, editingValue,
  logCalls               \* the storage calls of the page that are in flight

pageVars ==
  <<generatedIngredients, recipeTotals, recipeName, errorMessage, successMessage,
    isLoadingList, isLoadingRecipe, isFetchingExisting, geminiApiKey, showApiKeyInput,
    catalog, procPhase, procJobs, fetchIds, retries, addPending, savePending, generations>>

selVars == <<logEntries, selectedLogIds, totals, isLoading, isCreating, createPending>>

tgtVars == <<dailyTotals, targets, calculatedTargets>>

logVars ==
  <<foodLog, nextLogId, recentLogs, currentPage, canLoadMore, loadingLogs, loadingMore,
    logError, isLogging, editingLogId, editingProperty, editingValue, logCalls>>

\* the variables of the other components
settingsVars ==
  <<targetTable, nextTargetId, settingsTargets, targetsLoading, targetsError, absoluteForm,
    relativeForm, targetCalls>>

itemsVars ==
  <<itemTable, nextItemId, foodItems, itemsLoading, itemsError, itemEdit, itemsCreating,
    newItem, itemCalls>>

kcalVars == <<kcalItem, kcalResult>>

moreVars == <<logVars, settingsVars, itemsVars, kcalVars>>

vars == <<pageVars, selVars, tgtVars, moreVars>>

\* what the actions of one component leave alone
notPage == <<selVars, tgtVars, moreVars>>

notSel ==
  <<generatedIngredients, recipeTotals, isLoadingList, isLoadingRecipe, isFetchingExisting,
    geminiApiKey, showApiKeyInput, procPhase, procJobs, fetchIds, retries, addPending,
    savePending, generations, tgtVars, moreVars>>

notTgt == <<pageVars, selVars, moreVars>>

notLog == <<pageVars, selVars, tgtVars, settingsVars, itemsVars, kcalVars>>

notSettings == <<pageVars, selVars, tgtVars, logVars, itemsVars, kcalVars>>

notItems == <<pageVars, selVars, tgtVars, logVars, settingsVars, kcalVars>>

notKcal == <<pageVars, selVars, tgtVars, logVars, settingsVars, itemsVars>>

Units == {"g", "dl", "pcs", "portion"}

NoNutrition == <<>>

\* --- reactive state ($:) ------------------------------------------------------
HasUnprocessedNew(list) == \E i \in DOMAIN list : list[i].id = 0 /\ list[i].status = "idle"

hasUnprocessedNewItems == HasUnprocessedNew(generatedIngredients)

CanCreate(list) == Len(list) > 0 /\ ~(\E i \in DOMAIN list : list[i].status # "done")

\* a guard that only looks at the length of the list
canCreateNonEmpty == Len(generatedIngredients) > 0

canCreateRecipe == CanCreate(generatedIngredients)

\* --- calculateRecipeTotals ---------------------------------------------------
\* one ingredient's contribution to key k, in thousandths of a gram
Contribution(ing, k) ==
  IF ing.status = "done" /\ ing.nutrition # NoNutrition
    THEN OrZero(ing.nutrition[1][k])
           * (IF ing.multiplier = NULL THEN DefaultMultiplier * 100 ELSE ing.multiplier)
    ELSE 0

RECURSIVE RawRecipeSum(_, _, _)
RawRecipeSum(list, k, n) ==
  IF n = 0 THEN 0 ELSE RawRecipeSum(list, k, n - 1) + Contribution(list[n], k)

\* the stored totals: every key rounded to whole grams (kept in tenths)
RoundTotal(thousandths) == MathRound(thousandths, 1000) * 10

calculateRecipeTotals(list) ==
  [count |-> Cardinality({i \in DOMAIN list :
                            list[i].status = "done" /\ list[i].nutrition # NoNutrition}),
   vec |-> [k \in NutrientKeys |-> RoundTotal(RawRecipeSum(list, k, Len(list)))]]

\* --- ingredient objects --------------------------------------------------------
\* a matched ingredient as generateIngredientList builds it from {id, multiplier}
MatchedIngredient(parsed) ==
  LET known == parsed.id \in DOMAIN allFoodItems IN
  [id |-> parsed.id, name |-> "", quantity |-> NULL, unit |-> "",
   multiplier |-> parsed.multiplier,
   serving_qty |-> IF known THEN allFoodItems[parsed.id].serving_qty ELSE NULL,
   serving_unit |-> IF known THEN allFoodItems[parsed.id].serving_unit ELSE "",
   status |-> "idle", errorMsg |-> "", isManuallyAdded |-> FALSE, nutrition |-> NoNutrition]

\* a new ingredient as generateIngredientList builds it from {name, quantity, unit}:
\* the multiplier is the quantity over the standard quantity (1 for dl, else 100)
LlmStandardQty(unit) == IF unit = "dl" THEN 1 ELSE 100

NewLlmIngredient(parsed) ==
  [id |-> 0, name |-> parsed.name, quantity |-> parsed.quantity,
   unit |-> parsed.unit,
   multiplier |-> (parsed.quantity * 100) \div LlmStandardQty(parsed.unit),
   serving_qty |-> NULL, serving_unit |-> "",
   status |-> "idle", errorMsg |-> "", isManuallyAdded |-> FALSE, nutrition |-> NoNutrition]

\* addNewIngredient: default 100 g, no multiplier yet
ManualNewIngredient(name) ==
  [id |-> 0, name |-> name, quantity |-> 100, unit |-> "g",
   multiplier |-> NULL, serving_qty |-> NULL, serving_unit |-> "",
   status |-> "idle", errorMsg |-> "", isManuallyAdded |-> TRUE, nutrition |-> NoNutrition]

\* addExistingIngredient: the fetched row, done, multiplier 1
ExistingIngredient(id, row) ==
  [id |-> id, name |-> "", quantity |-> NULL, unit |-> "",
   multiplier |-> 100, serving_qty |-> row.serving_qty, serving_unit |-> row.serving_unit,
   status |-> "done", errorMsg |-> "", isManuallyAdded |-> FALSE,
   nutrition |-> <<row.nutrition>>]

\* --- what the language model may answer to the ingredient-list prompt ---------
ParsedIngredients ==
  {[id |-> 1, multiplier |-> 150, name |-> "", quantity |-> NULL, unit |-> ""],
   [id |-> 99, multiplier |-> 100, name |-> "", quantity |-> NULL, unit |-> ""],
   [id |-> 0, multiplier |-> NULL, name |-> "flour", quantity |-> 150, unit |-> "g"],
   [id |-> 0, multiplier |-> NULL, name |-> "milk", quantity |-> 2, unit |-> "dl"]}

\* answers: lists of distinct ingredients, at most MaxGenerated long
RECURSIVE ParsedLists(_)
ParsedLists(n) ==
  IF n = 0 THEN {<<>>}
  ELSE LET shorter == ParsedLists(n - 1) IN
       shorter \cup {Append(l, p) : l \in {s \in shorter : Len(s) = n - 1},
                                    p \in ParsedIngredients}

LlmAnswers ==
  {l \in ParsedLists(MaxGenerated) :
     Len(l) > 0 /\ \A i, j \in DOMAIN l : i # j => l[i] # l[j]}

MapParsed(parsed) ==
  [i \in DOMAIN parsed |->
     IF parsed[i].id # 0 THEN MatchedIngredient(parsed[i]) ELSE NewLlmIngredient(parsed[i])]

\* a retry holds a reference to its ingredient object, kept here as the object's
\* index in the list; index 0: the object is no longer in the list
Detached == 0

DetachAll(rs) == [n \in DOMAIN rs |-> [rs[n] EXCEPT !.index = Detached]]

\* retries that keep the index they were started with
KeepIndexAt(rs, index) == rs

DetachAt(rs, index) ==
  [n \in DOMAIN rs |->
     IF rs[n].index = index THEN [rs[n] EXCEPT !.index = Detached]
     ELSE IF rs[n].index > index THEN [rs[n] EXCEPT !.index = rs[n].index - 1]
     ELSE rs[n]]

ManualNames == {"egg"}

RecipeNames == {"", "soup"}

\* recipeName.trim()
Trim(name) == IF name \in {"", " "} THEN "" ELSE name

ZeroTotals == calculateRecipeTotals(<<>>)

NoJobs == <<>>

\* the fields that the recipe pages share by name
SharedInit ==
  /\ catalog = InitialCatalog
  /\ recipeName = ""
  /\ errorMessage = ""
  /\ successMessage = ""

\* the page's own fields after construction
PageQuiet ==
  /\ generatedIngredients = <<>>
  /\ recipeTotals = ZeroTotals
  /\ isLoadingList = FALSE
  /\ isLoadingRecipe = FALSE
  /\ isFetchingExisting = FALSE
  /\ geminiApiKey = FALSE
  /\ showApiKeyInput = FALSE
  /\ procPhase = "none"
  /\ procJobs = NoJobs
  /\ fetchIds = {}
  /\ retries = <<>>
  /\ addPending = {}
  /\ savePending = <<>>
  /\ generations = 0

PageInit == SharedInit /\ PageQuiet

\* --- small page actions --------------------------------------------------------
SetRecipeName(n) ==
  /\ recipeName # n
  /\ recipeName' = n
  /\ UNCHANGED notPage
  /\ UNCHANGED <<generatedIngredients, recipeTotals, errorMessage, successMessage,
                 isLoadingList, isLoadingRecipe, isFetchingExisting, geminiApiKey,
                 showApiKeyInput, catalog, procPhase, procJobs, fetchIds, retries,
                 addPending, savePending, generations>>

saveApiKey ==
  /\ showApiKeyInput
  /\ geminiApiKey' = TRUE
  /\ showApiKeyInput' = FALSE
  /\ errorMessage' = ""
  /\ UNCHANGED notPage
  /\ UNCHANGED <<generatedIngredients, recipeTotals, recipeName, successMessage,
                 isLoadingList, isLoadingRecipe, isFetchingExisting, catalog, procPhase,
                 procJobs, fetchIds, retries, addPending, savePending, generations>>

\* --- generateIngredientList ----------------------------------------------------
\* the button is disabled while !recipeName || isLoadingList || isLoadingRecipe
generateIngredientListStart ==
  /\ recipeName # "" /\ ~isLoadingList /\ ~isLoadingRecipe
  /\ generations < MaxGenerations
  /\ generations' = IF geminiApiKey THEN generations + 1 ELSE generations
  /\ successMessage' = ""
  /\ generatedIngredients' = <<>>
  /\ recipeTotals' = calculateRecipeTotals(<<>>)
  /\ IF ~geminiApiKey
       THEN /\ errorMessage' = "api_key_missing"
            /\ showApiKeyInput' = TRUE
            /\ isLoadingList' = FALSE
       ELSE /\ errorMessage' = ""
            /\ isLoadingList' = TRUE
            /\ UNCHANGED showApiKeyInput
  /\ retries' = DetachAll(retries)
  /\ UNCHANGED notPage
  /\ UNCHANGED <<recipeName, isLoadingRecipe, isFetchingExisting, geminiApiKey, catalog,
                 procPhase, procJobs, fetchIds, addPending, savePending>>

generateIngredientListDone(answer) ==
  /\ isLoadingList
  /\ generatedIngredients' = MapParsed(answer)
  /\ recipeTotals' = calculateRecipeTotals(generatedIngredients')
  /\ isLoadingList' = FALSE
  /\ UNCHANGED notPage
  /\ UNCHANGED <<recipeName, errorMessage, successMessage, isLoadingRecipe,
                 isFetchingExisting, geminiApiKey, showApiKeyInput, catalog, procPhase,
                 procJobs, fetchIds, retries, addPending, savePending, generations>>

generateIngredientListFail ==
  /\ isLoadingList
  /\ errorMessage' = "generate_failed"
  /\ isLoadingList' = FALSE
  /\ UNCHANGED notPage
  /\ UNCHANGED <<generatedIngredients, recipeTotals, recipeName, successMessage,
                 isLoadingRecipe, isFetchingExisting, geminiApiKey, showApiKeyInput,
                 catalog, procPhase, procJobs, fetchIds, retries, addPending, savePending, generations>>

\* --- deleteIngredient / Cancel / manual add -----------------------------------
RemoveAt(list, index) ==
  [j \in 1..(Len(list) - 1) |-> IF j < index THEN list[j] ELSE list[j + 1]]

\* the delete button of a row is disabled while isLoadingRecipe
deleteIngredient(index) ==
  /\ index \in DOMAIN generatedIngredients
  /\ ~isLoadingRecipe
  /\ generatedIngredients' = RemoveAt(generatedIngredients, index)
  /\ recipeTotals' = calculateRecipeTotals(generatedIngredients')
  /\ retries' = DetachAt(retries, index)
  /\ UNCHANGED notPage
  /\ UNCHANGED <<recipeName, errorMessage, successMessage, isLoadingList, isLoadingRecipe,
                 isFetchingExisting, geminiApiKey, showApiKeyInput, catalog, procPhase,
                 procJobs, fetchIds, addPending, savePending, generations>>

\* the Cancel button (shown with the list, disabled while loading)
CancelList ==
  /\ Len(generatedIngredients) > 0
  /\ ~isLoadingList /\ ~isLoadingRecipe
  /\ generatedIngredients' = <<>>
  /\ errorMessage' = ""
  /\ successMessage' = ""
  /\ recipeTotals' = calculateRecipeTotals(<<>>)
  /\ retries' = DetachAll(retries)
  /\ UNCHANGED notPage
  /\ UNCHANGED <<recipeName, isLoadingList, isLoadingRecipe, isFetchingExisting,
                 geminiApiKey, showApiKeyInput, catalog, procPhase, procJobs, fetchIds,
                 addPending, savePending, generations>>

\* the manual-add box is rendered with the list and disabled while
\* isFetchingExisting || isLoadingRecipe || isLoadingList
ManualAddEnabled ==
  /\ Len(generatedIngredients) > 0
  /\ Len(generatedIngredients) < MaxIngredients
  /\ ~isFetchingExisting /\ ~isLoadingRecipe /\ ~isLoadingList

addNewIngredient(name) ==
  /\ ManualAddEnabled
  /\ generatedIngredients' =
       Append(generatedIngredients,
              ManualNewIngredient(name))
  /\ UNCHANGED notPage
  /\ UNCHANGED <<recipeTotals, recipeName, errorMessage, successMessage, isLoadingList,
                 isLoadingRecipe, isFetchingExisting, geminiApiKey, showApiKeyInput,
                 catalog, procPhase, procJobs, fetchIds, retries, addPending, savePending, generations>>

addExistingIngredientStart(id) ==
  /\ ManualAddEnabled
  /\ id \in DOMAIN allFoodItems
  /\ addPending = {}
  /\ addPending' = {id}
  /\ isFetchingExisting' = TRUE
  /\ errorMessage' = ""
  /\ UNCHANGED notPage
  /\ UNCHANGED <<generatedIngredients, recipeTotals, recipeName, successMessage,
                 isLoadingList, isLoadingRecipe, geminiApiKey, showApiKeyInput, catalog,
                 procPhase, procJobs, fetchIds, retries, savePending, generations>>

addExistingIngredientDone(id) ==
  /\ id \in addPending
  /\ id \in DOMAIN catalog
  /\ Len(generatedIngredients) < MaxIngredients
  /\ addPending' = addPending \ {id}
  /\ generatedIngredients' =
       Append(generatedIngredients,
              ExistingIngredient(id, catalog[id]))
  /\ recipeTotals' = calculateRecipeTotals(generatedIngredients')
  /\ isFetchingExisting' = FALSE
  /\ UNCHANGED notPage
  /\ UNCHANGED <<recipeName, errorMessage, successMessage, isLoadingList, isLoadingRecipe,
                 geminiApiKey, showApiKeyInput, catalog, procPhase, procJobs, fetchIds,
                 retries, savePending, generations>>

addExistingIngredientFail(id) ==
  /\ id \in addPending
  /\ addPending' = addPending \ {id}
  /\ errorMessage' = "add_existing_failed"
  /\ isFetchingExisting' = FALSE
  /\ UNCHANGED notPage
  /\ UNCHANGED <<generatedIngredients, recipeTotals, recipeName, successMessage,
                 isLoadingList, isLoadingRecipe, geminiApiKey, showApiKeyInput, catalog,
                 procPhase, procJobs, fetchIds, retries, savePending, generations>>

\* --- processNewIngredients -----------------------------------------------------
\* standard serving of a new ingredient (1 for dl, pcs and portion, 100 for g)
StandardUnit(unit) ==
  IF unit = "dl" THEN "dl"
  ELSE IF unit = "pcs" THEN "pcs"
  ELSE IF unit = "portion" THEN "portion"
  ELSE "g"

StandardQty(unit) ==
  IF StandardUnit(unit) = "dl" THEN 1
  ELSE IF StandardUnit(unit) = "pcs" THEN 1
  ELSE IF StandardUnit(unit) = "portion" THEN 1
  ELSE 100

\* quantity / standardQty, in hundredths
QuantityMultiplier(quantity, standardQty) == (quantity * 100) \div standardQty

\* the jobs: the ingredients that are new and idle, by original index
NewIngredientJobs(list) == {i \in DOMAIN list : list[i].id = 0 /\ list[i].status = "idle"}

\* the promise of one job right after its synchronous part
StartJob(ing) ==
  IF ing.name = "" \/ ing.quantity = NULL \/ ing.unit = ""
    THEN [stage |-> "rejected", name |-> ing.name, standardQty |-> NULL,
          standardUnit |-> "", multiplier |-> NULL, nutrition |-> NoNutrition, id |-> 0,
          reason |-> "failed"]
    ELSE [stage |-> "pending", name |-> ing.name, standardQty |-> StandardQty(ing.unit),
          standardUnit |-> StandardUnit(ing.unit),
          multiplier |-> QuantityMultiplier(ing.quantity, StandardQty(ing.unit)),
          nutrition |-> NoNutrition, id |-> 0, reason |-> ""]

Settled(job) == job.stage \in {"fulfilled", "rejected"}

AllSettled(jobs) == \A i \in DOMAIN jobs : Settled(jobs[i])

\* a join that fails as a whole: one rejection marks every job's ingredient as failed
ApplyResultsAllOrNothing(list, jobs) ==
  [i \in DOMAIN list |->
     IF i \notin DOMAIN jobs THEN list[i]
     ELSE IF \A j \in DOMAIN jobs : jobs[j].stage = "fulfilled"
       THEN [list[i] EXCEPT !.id = jobs[i].id,
                            !.multiplier = jobs[i].multiplier,
                            !.serving_qty = jobs[i].standardQty,
                            !.serving_unit = jobs[i].standardUnit,
                            !.status = "done",
                            !.nutrition = jobs[i].nutrition,
                            !.errorMsg = ""]
       ELSE [list[i] EXCEPT !.status = "error", !.errorMsg = "failed"]]

\* step 3: the new array built from the settled results, found by original index
ApplyResults(list, jobs) ==
  [i \in DOMAIN list |->
     IF i \notin DOMAIN jobs THEN list[i]
     ELSE IF jobs[i].stage = "fulfilled"
       THEN [list[i] EXCEPT !.id = jobs[i].id,
                            !.multiplier = jobs[i].multiplier,
                            !.serving_qty = jobs[i].standardQty,
                            !.serving_unit = jobs[i].standardUnit,
                            !.status = "done",
                            !.nutrition = jobs[i].nutrition,
                            !.errorMsg = ""]
       ELSE [list[i] EXCEPT !.status = "error", !.errorMsg = jobs[i].reason]]

HasError(list) == \E i \in DOMAIN list : list[i].status = "error"

AllDone(list) == \A i \in DOMAIN list : list[i].status = "done"

\* existingItemIdsToFetch: matched items not yet processed
ExistingIdsToFetch(list) ==
  {list[i].id : i \in {j \in DOMAIN list : list[j].id # 0 /\ list[j].status = "idle"}}

\* the continuation after Promise.allSettled: steps 3 and 4 and the start of step C.
\* It runs in the turn in which the last promise settles.
FinishJobs(list, jobs) ==
  LET updated == ApplyResults(list, jobs) IN
  /\ generatedIngredients' = updated
  /\ recipeTotals' = calculateRecipeTotals(updated)
  /\ procJobs' = NoJobs
  /\ IF HasError(updated)
       THEN \* throw new Error("Failed to process ..."): step C is skipped
            /\ errorMessage' = "processing_failed"
            /\ isLoadingRecipe' = FALSE
            /\ procPhase' = "none"
            /\ fetchIds' = {}
            /\ UNCHANGED <<successMessage, isFetchingExisting>>
       ELSE IF ExistingIdsToFetch(updated) = {}
         THEN \* fetchNutritionForExistingIdleItems returns at once
              /\ successMessage' = IF AllDone(updated) THEN "processed_ok" ELSE successMessage
              /\ isLoadingRecipe' = FALSE
              /\ procPhase' = "none"
              /\ fetchIds' = {}
              /\ UNCHANGED <<errorMessage, isFetchingExisting>>
         ELSE /\ fetchIds' = ExistingIdsToFetch(updated)
              /\ isFetchingExisting' = TRUE
              /\ errorMessage' = ""
              /\ procPhase' = "fetch"
              /\ UNCHANGED <<successMessage, isLoadingRecipe>>

\* a promise moved on: either others are still pending or the join continues
AdvanceJobs(jobs) ==
  IF AllSettled(jobs)
    THEN FinishJobs(generatedIngredients, jobs)
    ELSE /\ procJobs' = jobs
         /\ UNCHANGED <<generatedIngredients, recipeTotals, errorMessage, successMessage,
                        isLoadingRecipe, isFetchingExisting, procPhase, fetchIds>>

\* a start of the jobs that leaves the status alone
MarkNothing(list, idx) == list

MarkProcessing(list, idx) ==
  [i \in DOMAIN list |-> IF i \in idx THEN [list[i] EXCEPT !.status = "processing"] ELSE list[i]]

\* the button is shown while hasUnprocessedNewItems and disabled while loading
processNewIngredients ==
  /\ hasUnprocessedNewItems
  /\ ~isLoadingList /\ ~isLoadingRecipe
  /\ procPhase = "none"
  /\ IF ~geminiApiKey
       THEN /\ errorMessage' = "api_key_missing"
            /\ successMessage' = ""
            /\ showApiKeyInput' = TRUE
            /\ UNCHANGED <<generatedIngredients, recipeTotals, isLoadingRecipe,
                           isFetchingExisting, procPhase, procJobs, fetchIds>>
       ELSE LET idx == NewIngredientJobs(generatedIngredients)
                jobs == [i \in idx |-> StartJob(generatedIngredients[i])]
                marked == MarkProcessing(generatedIngredients, idx)
            IN IF AllSettled(jobs)
                 THEN \* every job threw before its first await: all are rejected
                      /\ generatedIngredients' = ApplyResults(marked, jobs)
                      /\ recipeTotals' = calculateRecipeTotals(generatedIngredients')
                      /\ errorMessage' = "processing_failed"
                      /\ successMessage' = ""
                      /\ UNCHANGED <<isLoadingRecipe, isFetchingExisting, procPhase,
                                     procJobs, fetchIds, showApiKeyInput>>
                 ELSE /\ generatedIngredients' = marked
                      /\ procJobs' = jobs
                      /\ procPhase' = "jobs"
                      /\ isLoadingRecipe' = TRUE
                      /\ errorMessage' = ""
                      /\ successMessage' = ""
                      /\ UNCHANGED <<recipeTotals, isFetchingExisting, fetchIds,
                                     showApiKeyInput>>
  /\ UNCHANGED notPage
  /\ UNCHANGED <<recipeName, isLoadingList, geminiApiKey, catalog, retries, addPending,
                 savePending, generations>>

\* storage insert into food_items: the new row gets the next id
NextId(cat) == 1 + Cardinality(DOMAIN cat)

CanInsert(cat) == Cardinality(DOMAIN cat) < Cardinality(DOMAIN InitialCatalog) + MaxInserts

InsertRow(cat, row) == (NextId(cat) :> row) @@ cat

\* one promise is fulfilled: the model's answer parsed into a nutrient vector and the
\* row was inserted into food_items
JobFulfilled(i) ==
  /\ procPhase = "jobs" /\ i \in DOMAIN procJobs /\ procJobs[i].stage = "pending"
  /\ CanInsert(catalog)
  /\ \E v \in AIResponses(procJobs[i].name) :
       /\ catalog' = InsertRow(catalog,
                               [name |-> procJobs[i].name,
                                serving_qty |-> procJobs[i].standardQty,
                                serving_unit |-> procJobs[i].standardUnit,
                                nutrition |-> v])
       /\ AdvanceJobs([procJobs EXCEPT ![i].stage = "fulfilled",
                                       ![i].nutrition = <<v>>,
                                       ![i].id = NextId(catalog)])
  /\ UNCHANGED notPage
  /\ UNCHANGED <<recipeName, isLoadingList, geminiApiKey, showApiKeyInput, retries,
                 addPending, savePending, generations>>

\* one promise is rejected: the external call failed, its answer was malformed, or
\* the insert failed
JobRejected(i) ==
  /\ procPhase = "jobs" /\ i \in DOMAIN procJobs /\ procJobs[i].stage = "pending"
  /\ AdvanceJobs([procJobs EXCEPT ![i].stage = "rejected", ![i].reason = "failed"])
  /\ UNCHANGED notPage
  /\ UNCHANGED <<recipeName, isLoadingList, geminiApiKey, showApiKeyInput, catalog,
                 retries, addPending, savePending, generations>>

\* --- fetchNutritionForExistingIdleItems (step C of processNewIngredients) -------
\* the rows came back: every matched idle item becomes done, or error if no row
\* was returned for its id
StoreFetched(list, cat, ids) ==
  [i \in DOMAIN list |->
     IF list[i].id # 0 /\ list[i].status = "idle"
       THEN IF list[i].id \in ids /\ list[i].id \in DOMAIN cat
              THEN [list[i] EXCEPT !.nutrition = <<cat[list[i].id].nutrition>>,
                                   !.status = "done"]
              ELSE [list[i] EXCEPT !.status = "error", !.errorMsg = "failed"]
       ELSE list[i]]

\* the fetch failed: the items it was for are marked as errored
MarkFetchFailed(list, ids) ==
  [i \in DOMAIN list |->
     IF list[i].id # 0 /\ list[i].id \in ids /\ list[i].status = "idle"
       THEN [list[i] EXCEPT !.status = "error", !.errorMsg = "failed"]
       ELSE list[i]]

fetchExistingOk ==
  /\ procPhase = "fetch"
  /\ LET updated == StoreFetched(generatedIngredients, catalog, fetchIds) IN
       /\ generatedIngredients' = updated
       /\ recipeTotals' = calculateRecipeTotals(updated)
       /\ IF HasError(updated)
            THEN /\ errorMessage' = "processing_failed"
                 /\ UNCHANGED successMessage
            ELSE /\ successMessage' = IF AllDone(updated) THEN "processed_ok"
                                      ELSE successMessage
                 /\ UNCHANGED errorMessage
  /\ isFetchingExisting' = FALSE
  /\ isLoadingRecipe' = FALSE
  /\ procPhase' = "none"
  /\ fetchIds' = {}
  /\ UNCHANGED notPage
  /\ UNCHANGED <<recipeName, isLoadingList, geminiApiKey, showApiKeyInput, catalog,
                 procJobs, retries, addPending, savePending, generations>>

fetchExistingFail ==
  /\ procPhase = "fetch"
  /\ generatedIngredients' = MarkFetchFailed(generatedIngredients, fetchIds)
  /\ recipeTotals' = calculateRecipeTotals(generatedIngredients')
  /\ errorMessage' = "processing_failed"
  /\ isFetchingExisting' = FALSE
  /\ isLoadingRecipe' = FALSE
  /\ procPhase' = "none"
  /\ fetchIds' = {}
  /\ UNCHANGED notPage
  /\ UNCHANGED <<recipeName, successMessage, isLoadingList, geminiApiKey, showApiKeyInput,
                 catalog, procJobs, retries, addPending, savePending, generations>>

\* --- retryProcessIngredient ----------------------------------------------------
\* the retry re-runs the resolution with its own standard serving: dl or g
RetryStandardUnit(unit) == IF unit = "dl" THEN "dl" ELSE "g"

RetryStandardQty(unit) == IF RetryStandardUnit(unit) = "dl" THEN 1 ELSE 100

\* the original name, quantity and unit a retry needs (!name || !quantity || !unit)
RetryDataMissing(ing) ==
  ing.name = "" \/ ing.quantity = NULL \/ ing.quantity = 0 \/ ing.unit = ""

SetAt(list, index, ing) == [list EXCEPT ![index] = ing]

\* the retry button of an error row, disabled while isLoadingRecipe
retryProcessIngredient(index) ==
  /\ index \in DOMAIN generatedIngredients
  /\ generatedIngredients[index].status = "error"
  /\ ~isLoadingRecipe
  /\ LET ing == generatedIngredients[index] IN
       IF ~geminiApiKey
         THEN /\ generatedIngredients' =
                   SetAt(generatedIngredients, index,
                         [ing EXCEPT !.status = "error", !.errorMsg = "cannot_retry"])
              /\ showApiKeyInput' = TRUE
              /\ UNCHANGED retries
         ELSE IF RetryDataMissing(ing)
           THEN /\ generatedIngredients' =
                     SetAt(generatedIngredients, index,
                           [ing EXCEPT !.status = "error", !.errorMsg = "cannot_retry"])
                /\ UNCHANGED <<showApiKeyInput, retries>>
           ELSE /\ Len(retries) < MaxRetriesInFlight
                /\ generatedIngredients' =
                     SetAt(generatedIngredients, index,
                           [ing EXCEPT !.status = "processing", !.errorMsg = ""])
                /\ retries' =
                     Append(retries,
                            [index |-> index, name |-> ing.name,
                             standardQty |-> RetryStandardQty(ing.unit),
                             standardUnit |-> RetryStandardUnit(ing.unit),
                             multiplier |->
                               QuantityMultiplier(ing.quantity, RetryStandardQty(ing.unit))])
                /\ UNCHANGED showApiKeyInput
  /\ UNCHANGED notPage
  /\ UNCHANGED <<recipeTotals, recipeName, errorMessage, successMessage, isLoadingList,
                 isLoadingRecipe, isFetchingExisting, geminiApiKey, catalog, procPhase,
                 procJobs, fetchIds, addPending, savePending, generations>>

DropRetry(n) == RemoveAt(retries, n)

\* a retry whose success stores the row but never sets the status
RetryEndKeepsStatus(n, status, nutrition, id) ==
  LET r == retries[n]
      index == r.index
  IN /\ generatedIngredients' =
          IF index = Detached \/ status # "done" THEN generatedIngredients
          ELSE SetAt(generatedIngredients, index,
                     [generatedIngredients[index] EXCEPT
                        !.id = id, !.multiplier = r.multiplier,
                        !.serving_qty = r.standardQty,
                        !.serving_unit = r.standardUnit,
                        !.nutrition = nutrition])
     /\ recipeTotals' = calculateRecipeTotals(generatedIngredients')
     /\ retries' = DropRetry(n)

\* the end of a retry: the object it holds is updated (it may have left the list),
\* the list is re-assigned and the totals are recomputed
RetryEnd(n, status, nutrition, id) ==
  LET r == retries[n]
      index == r.index
  IN /\ generatedIngredients' =
          IF index = Detached THEN generatedIngredients
          ELSE SetAt(generatedIngredients, index,
                     IF status = "done"
                       THEN [generatedIngredients[index] EXCEPT
                               !.status = "done", !.id = id,
                               !.multiplier = r.multiplier,
                               !.serving_qty = r.standardQty,
                               !.serving_unit = r.standardUnit,
                               !.nutrition = nutrition,
                               !.errorMsg = ""]
                       ELSE [generatedIngredients[index] EXCEPT
                               !.status = "error", !.errorMsg = "failed"])
     /\ recipeTotals' = calculateRecipeTotals(generatedIngredients')
     /\ retries' = DropRetry(n)

\* the retry's external call and insert succeeded
retrySucceeded(n) ==
  /\ n \in DOMAIN retries
  /\ CanInsert(catalog)
  /\ \E v \in AIResponses(retries[n].name) :
       /\ catalog' = InsertRow(catalog,
                               [name |-> retries[n].name,
                                serving_qty |-> retries[n].standardQty,
                                serving_unit |-> retries[n].standardUnit,
                                nutrition |-> v])
       /\ RetryEnd(n, "done", <<v>>, NextId(catalog))
  /\ UNCHANGED notPage
  /\ UNCHANGED <<recipeName, errorMessage, successMessage, isLoadingList, isLoadingRecipe,
                 isFetchingExisting, geminiApiKey, showApiKeyInput, procPhase, procJobs,
                 fetchIds, addPending, savePending, generations>>

\* the retry's external call or insert failed
retryFailed(n) ==
  /\ n \in DOMAIN retries
  /\ RetryEnd(n, "error", NoNutrition, 0)
  /\ UNCHANGED notPage
  /\ UNCHANGED <<recipeName, errorMessage, successMessage, isLoadingList, isLoadingRecipe,
                 isFetchingExisting, geminiApiKey, showApiKeyInput, catalog, procPhase,
                 procJobs, fetchIds, addPending, savePending, generations>>

\* --- saveFinalRecipe -----------------------------------------------------------
\* called while canCreateRecipe is false: the guard reports and returns
saveFinalRecipeRejected ==
  /\ ~canCreateRecipe
  /\ errorMessage' = "cannot_create"
  /\ UNCHANGED notPage
  /\ UNCHANGED <<generatedIngredients, recipeTotals, recipeName, successMessage,
                 isLoadingList, isLoadingRecipe, isFetchingExisting, geminiApiKey,
                 showApiKeyInput, catalog, procPhase, procJobs, fetchIds, retries,
                 addPending, savePending, generations>>

\* the row to insert: the already calculated recipeTotals, one portion
RecipeToInsert ==
  [name |-> Trim(recipeName), serving_qty |-> 1, serving_unit |-> "portion",
   nutrition |-> recipeTotals.vec]

\* the Create Recipe button: shown while canCreateRecipe, disabled while loading
saveFinalRecipeStart ==
  /\ canCreateRecipe
  /\ ~isLoadingList /\ ~isLoadingRecipe
  /\ isLoadingRecipe' = TRUE
  /\ errorMessage' = ""
  /\ successMessage' = ""
  /\ savePending' = <<RecipeToInsert>>
  /\ UNCHANGED notPage
  /\ UNCHANGED <<generatedIngredients, recipeTotals, recipeName, isLoadingList,
                 isFetchingExisting, geminiApiKey, showApiKeyInput, catalog, procPhase,
                 procJobs, fetchIds, retries, addPending, generations>>

saveFinalRecipeOk ==
  /\ savePending # <<>>
  /\ CanInsert(catalog)
  /\ catalog' = InsertRow(catalog, savePending[1])
  /\ successMessage' = "recipe_created"
  /\ generatedIngredients' = <<>>
  /\ recipeTotals' = calculateRecipeTotals(<<>>)
  /\ isLoadingRecipe' = FALSE
  /\ savePending' = <<>>
  /\ retries' = DetachAll(retries)
  /\ UNCHANGED notPage
  /\ UNCHANGED <<recipeName, errorMessage, isLoadingList, isFetchingExisting,
                 geminiApiKey, showApiKeyInput, procPhase, procJobs, fetchIds,
                 addPending, generations>>

\* a failure handler that clears the list as the success path does
saveFinalRecipeFailClears ==
  /\ savePending # <<>>
  /\ errorMessage' = "save_failed"
  /\ generatedIngredients' = <<>>
  /\ recipeTotals' = calculateRecipeTotals(<<>>)
  /\ isLoadingRecipe' = FALSE
  /\ savePending' = <<>>
  /\ retries' = DetachAll(retries)
  /\ UNCHANGED notPage
  /\ UNCHANGED <<recipeName, successMessage, isLoadingList, isFetchingExisting,
                 geminiApiKey, showApiKeyInput, catalog, procPhase, procJobs, fetchIds,
                 addPending, generations>>

saveFinalRecipeFail ==
  /\ savePending # <<>>
  /\ errorMessage' = "save_failed"
  /\ isLoadingRecipe' = FALSE
  /\ savePending' = <<>>
  /\ UNCHANGED notPage
  /\ UNCHANGED <<generatedIngredients, recipeTotals, recipeName, successMessage,
                 isLoadingList, isFetchingExisting, geminiApiKey, showApiKeyInput, catalog,
                 procPhase, procJobs, fetchIds, retries, addPending, generations>>

PageNext ==
  \/ \E n \in RecipeNames : SetRecipeName(n)
  \/ saveApiKey
  \/ generateIngredientListStart
  \/ \E answer \in LlmAnswers : generateIngredientListDone(answer)
  \/ generateIngredientListFail
  \/ \E index \in 1..MaxIngredients : deleteIngredient(index)
  \/ CancelList
  \/ \E name \in ManualNames : addNewIngredient(name)
  \/ \E id \in DOMAIN allFoodItems : addExistingIngredientStart(id)
  \/ \E id \in DOMAIN allFoodItems : addExistingIngredientDone(id)
  \/ \E id \in DOMAIN allFoodItems : addExistingIngredientFail(id)
  \/ processNewIngredients
  \/ \E i \in 1..MaxIngredients : JobFulfilled(i)
  \/ \E i \in 1..MaxIngredients : JobRejected(i)
  \/ fetchExistingOk
  \/ fetchExistingFail
  \/ \E index \in 1..MaxIngredients : retryProcessIngredient(index)
  \/ \E n \in 1..MaxRetriesInFlight : retrySucceeded(n)
  \/ \E n \in 1..MaxRetriesInFlight : retryFailed(n)
  \/ saveFinalRecipeRejected
  \/ saveFinalRecipeStart
  \/ saveFinalRecipeOk
  \/ saveFinalRecipeFail

\* --- edits in the list ---------------------------------------------------------
\* what the user types into the inputs of a row
UserMultipliers == {250}

UserQuantities == {3}

UserUnits == {"pcs"}

\* the multiplier input: rendered for a done row, a matched idle row and an idle
\* row that came from the language model; disabled while loading
MultiplierEditable(ing) ==
  \/ ing.status = "done"
  \/ ing.status = "idle" /\ (ing.id # 0 \/ ~ing.isManuallyAdded)

\* the quantity input and the unit select: rendered for an idle row added by hand
QuantityEditable(ing) == ing.status = "idle" /\ ing.id = 0 /\ ing.isManuallyAdded

\* bind:value={ingredient.multiplier} with on:input={handleIngredientEdit}: the
\* totals are recomputed after the tick
editMultiplier(index, m) ==
  /\ index \in DOMAIN generatedIngredients
  /\ ~isLoadingRecipe /\ ~isLoadingList
  /\ MultiplierEditable(generatedIngredients[index])
  /\ generatedIngredients[index].multiplier # m
  /\ generatedIngredients' =
       SetAt(generatedIngredients, index,
             [generatedIngredients[index] EXCEPT !.multiplier = m])
  /\ recipeTotals' = calculateRecipeTotals(generatedIngredients')
  /\ UNCHANGED notPage
  /\ UNCHANGED <<recipeName, errorMessage, successMessage, isLoadingList, isLoadingRecipe,
                 isFetchingExisting, geminiApiKey, showApiKeyInput, catalog, procPhase,
                 procJobs, fetchIds, retries, addPending, savePending, generations>>

\* bind:value={ingredient.quantity}: no handler, the totals stay as they are
editQuantity(index, q) ==
  /\ index \in DOMAIN generatedIngredients
  /\ ~isLoadingRecipe /\ ~isLoadingList
  /\ QuantityEditable(generatedIngredients[index])
  /\ generatedIngredients[index].quantity # q
  /\ generatedIngredients' =
       SetAt(generatedIngredients, index,
             [generatedIngredients[index] EXCEPT !.quantity = q])
  /\ UNCHANGED notPage
  /\ UNCHANGED <<recipeTotals, recipeName, errorMessage, successMessage, isLoadingList,
                 isLoadingRecipe, isFetchingExisting, geminiApiKey, showApiKeyInput,
                 catalog, procPhase, procJobs, fetchIds, retries, addPending, savePending,
                 generations>>

\* bind:value={ingredient.unit}
editUnit(index, u) ==
  /\ index \in DOMAIN generatedIngredients
  /\ ~isLoadingRecipe /\ ~isLoadingList
  /\ QuantityEditable(generatedIngredients[index])
  /\ generatedIngredients[index].unit # u
  /\ generatedIngredients' =
       SetAt(generatedIngredients, index,
             [generatedIngredients[index] EXCEPT !.unit = u])
  /\ UNCHANGED notPage
  /\ UNCHANGED <<recipeTotals, recipeName, errorMessage, successMessage, isLoadingList,
                 isLoadingRecipe, isFetchingExisting, geminiApiKey, showApiKeyInput,
                 catalog, procPhase, procJobs, fetchIds, retries, addPending, savePending,
                 generations>>

\* one list, generated, extended by hand, edited, resolved and saved; its rows are
\* not removed and no existing item is added by hand
EditNext ==
  \/ \E n \in RecipeNames : SetRecipeName(n)
  \/ saveApiKey
  \/ generateIngredientListStart
  \/ \E answer \in LlmAnswers : generateIngredientListDone(answer)
  \/ generateIngredientListFail
  \/ \E name \in ManualNames : addNewIngredient(name)
  \/ processNewIngredients
  \/ \E i \in 1..MaxIngredients : JobFulfilled(i)
  \/ \E i \in 1..MaxIngredients : JobRejected(i)
  \/ fetchExistingOk
  \/ fetchExistingFail
  \/ \E index \in 1..MaxIngredients : retryProcessIngredient(index)
  \/ \E n \in 1..MaxRetriesInFlight : retrySucceeded(n)
  \/ \E n \in 1..MaxRetriesInFlight : retryFailed(n)
  \/ saveFinalRecipeRejected
  \/ saveFinalRecipeStart
  \/ saveFinalRecipeOk
  \/ saveFinalRecipeFail
  \/ \E index \in 1..MaxIngredients, m \in UserMultipliers : editMultiplier(index, m)
  \/ \E index \in 1..MaxIngredients, q \in UserQuantities : editQuantity(index, q)
  \/ \E index \in 1..MaxIngredients, u \in UserUnits : editUnit(index, u)


\* ===========================================================================
\*  The selection-mode recipe page
\* ===========================================================================
MaxEntries == 3

NoItem == <<>>

\* what the join food_log -> food_items may return for an entry: the item is
\* null when the Catalog Item it references no longer exists
LogChoices ==
  {<<150, NoItem>>,
   <<100, <<InitialCatalog[1]>>>>,
   <<150, <<[name |-> "flour", serving_qty |-> 100, serving_unit |-> "g",
             nutrition |-> VecFlour]>>>>}

\* the entries fetchLogs may load (ids in fetch order)
FetchedLogs == UNION {[1..n -> LogChoices] : n \in 0..MaxEntries}

RecipeLogEntry(id, fetched) ==
  [id |-> id, multiplier |-> fetched[1], food_items |-> fetched[2]]

MapFetched(fetched) == [i \in DOMAIN fetched |-> RecipeLogEntry(i, fetched[i])]

\* --- calculateTotals -----------------------------------------------------------
\* a loop that counts every selected entry
EntryCountedSelectedOnly(entry, selected) == entry.id \in selected

\* an entry counted by the loop: it is in the selection and its item is present
EntryCounted(entry, selected) == entry.id \in selected /\ entry.food_items # NoItem

\* (item.k || 0) * multiplier, in thousandths of a gram
ItemAmount(entry, k) ==
  IF entry.food_items = NoItem THEN 0
  ELSE OrZero(entry.food_items[1].nutrition[k]) * entry.multiplier

RECURSIVE SelectedSum(_, _, _, _)
SelectedSum(entries, selected, k, n) ==
  IF n = 0 THEN 0
  ELSE SelectedSum(entries, selected, k, n - 1)
         + (IF EntryCounted(entries[n], selected) THEN ItemAmount(entries[n], k) ELSE 0)

\* the omega6 : omega3 string built from the rounded totals (whole grams, in tenths)
OmegaRatio(totalOmega3, totalOmega6) ==
  IF totalOmega3 > 0
    THEN [kind |-> "ratio", tenths |-> MathRound(10 * totalOmega6, totalOmega3)]
  ELSE IF totalOmega6 > 0 THEN [kind |-> "infinite", tenths |-> 0]
  ELSE [kind |-> "-", tenths |-> 0]

calculateTotals(entries, selected) ==
  LET vec == [k \in NutrientKeys |->
                RoundTotal(SelectedSum(entries, selected, k, Len(entries)))]
  IN [count |-> Cardinality({i \in DOMAIN entries : EntryCounted(entries[i], selected)}),
      vec |-> vec,
      ratio |-> OmegaRatio(vec["omega3"], vec["omega6"])]

NoTotals == [count |-> 0, vec |-> [k \in NutrientKeys |-> 0]]

\* the page before it is mounted, and while another component is modelled
SelQuiet ==
  /\ logEntries = <<>>
  /\ selectedLogIds = {}
  /\ totals = NoTotals
  /\ isLoading = TRUE
  /\ isCreating = FALSE
  /\ createPending = <<>>

\* --- fetchLogs (onMount) ---------------------------------------------------------
fetchLogsDone(fetched) ==
  /\ isLoading
  /\ logEntries' = MapFetched(fetched)
  /\ isLoading' = FALSE
  /\ UNCHANGED <<selectedLogIds, totals, isCreating, createPending, catalog, recipeName,
                 errorMessage, successMessage>>
  /\ UNCHANGED notSel

fetchLogsFail ==
  /\ isLoading
  /\ errorMessage' = "fetch_logs_failed"
  /\ logEntries' = <<>>
  /\ isLoading' = FALSE
  /\ UNCHANGED <<selectedLogIds, totals, isCreating, createPending, catalog, recipeName,
                 successMessage>>
  /\ UNCHANGED notSel

\* --- toggleSelection --------------------------------------------------------------
toggleSelection(id) ==
  /\ \E i \in DOMAIN logEntries : logEntries[i].id = id
  /\ selectedLogIds' = IF id \in selectedLogIds THEN selectedLogIds \ {id}
                       ELSE selectedLogIds \cup {id}
  /\ totals' = calculateTotals(logEntries, selectedLogIds')
  /\ UNCHANGED <<logEntries, isLoading, isCreating, createPending, catalog, recipeName,
                 errorMessage, successMessage>>
  /\ UNCHANGED notSel

\* --- createRecipe -----------------------------------------------------------------
isCreateDisabled == recipeName = "" \/ selectedLogIds = {} \/ isCreating

\* the row built from the already calculated totals
newFoodItemData ==
  [name |-> Trim(recipeName), serving_qty |-> 1, serving_unit |-> "recipe serving",
   nutrition |-> totals.vec]

createRecipeStart ==
  /\ ~isCreateDisabled
  /\ ~(recipeName = "" \/ selectedLogIds = {})
  /\ successMessage' = ""
  /\ IF \A i \in DOMAIN logEntries : logEntries[i].id \notin selectedLogIds
       THEN /\ errorMessage' = "no_valid_entries"
            /\ UNCHANGED <<isCreating, createPending>>
       ELSE /\ errorMessage' = ""
            /\ isCreating' = TRUE
            /\ createPending' = <<newFoodItemData>>
  /\ UNCHANGED <<logEntries, selectedLogIds, totals, isLoading, catalog, recipeName>>
  /\ UNCHANGED notSel

createRecipeOk ==
  /\ createPending # <<>>
  /\ CanInsert(catalog)
  /\ catalog' = InsertRow(catalog, createPending[1])
  /\ successMessage' = "recipe_created"
  /\ recipeName' = ""
  /\ selectedLogIds' = {}
  /\ totals' = calculateTotals(logEntries, {})
  /\ isCreating' = FALSE
  /\ createPending' = <<>>
  /\ UNCHANGED <<logEntries, isLoading, errorMessage>>
  /\ UNCHANGED notSel

createRecipeFail ==
  /\ createPending # <<>>
  /\ errorMessage' = "create_failed"
  /\ isCreating' = FALSE
  /\ createPending' = <<>>
  /\ UNCHANGED <<logEntries, selectedLogIds, totals, isLoading, catalog, recipeName,
                 successMessage>>
  /\ UNCHANGED notSel

SelInit == SharedInit /\ SelQuiet

SelNext ==
  \/ \E fetched \in FetchedLogs : fetchLogsDone(fetched)
  \/ fetchLogsFail
  \/ \E id \in 1..MaxEntries : toggleSelection(id)
  \/ \E n \in RecipeNames : SetRecipeName(n)
  \/ createRecipeStart
  \/ createRecipeOk
  \/ createRecipeFail

\* ===========================================================================
\*  The target details modal
\* ===========================================================================
MaxTargets == 3

\* A JavaScript number is held as a fraction [n, d] with d >= 0; d = 0 is what a
\* division by zero produces: Infinity (n # 0) or NaN (n = 0).
Num(n, d) == [n |-> n, d |-> d]

IsFiniteNumber(v) == v.d # 0

JsDivide(a, b) == IF b < 0 THEN Num(-a, -b) ELSE Num(a, b)

NumLess(a, b) == a.n * b.d < b.n * a.d

NumMax(a, b) == IF NumLess(a, b) THEN b ELSE a

\* Math.ceil(v / unit) * unit
CeilTo(v, unit) ==
  IF v.d = 0 THEN v ELSE Num((0 - ((0 - v.n) \div (v.d * unit))) * unit, 1)

NoValue == <<>>

NoNutrient == ""

\* --- the props ---------------------------------------------------------------------
EmptyTotals == [k \in {} |-> 0]

AllZeroTotals == [k \in NutrientKeys |-> 0]

DayTotals ==
  [protein |-> 150, fat |-> 80, carbs |-> 200, fibers |-> 30, sugar |-> 50,
   mufa |-> 30, pufa |-> 20, sfa |-> 25, gl |-> 90, omega3 |-> 2, omega6 |-> 10]

\* omega6 10 g, no omega3
OmegaTotals == [k \in {"omega6", "omega3", "fat"} |-> IF k = "omega6" THEN 100 ELSE 0]

\* 0.1 g of protein: the derived kcal rounds to 0
TinyTotals == [k \in NutrientKeys |-> IF k = "protein" THEN 1 ELSE 0]

\* more fibers than carbs
FiberTotals ==
  [k \in NutrientKeys |->
     IF k = "fibers" THEN 100 ELSE IF k \in {"carbs", "protein", "fat"} THEN 50 ELSE 0]

\* protein alone
ProteinTotals(tenths) == [k \in {"protein"} |-> tenths]

\* 290 g of sugar
SugarTotals == [k \in {"sugar"} |-> 2900]

TotalsChoices ==
  {EmptyTotals, AllZeroTotals, DayTotals, OmegaTotals, TinyTotals, FiberTotals,
   ProteinTotals(300), ProteinTotals(750), ProteinTotals(1200), SugarTotals}

Target(n1, n2, min, max) ==
  [nutrient_1 |-> n1, nutrient_2 |-> n2, min_value |-> min, max_value |-> max]

TargetDefs ==
  {Target("protein", NoNutrient, 50, 100),
   Target("calories", NoNutrient, NULL, NULL),
   Target("sugar", NoNutrient, NULL, 25),
   Target("sugar", NoNutrient, NULL, 0),
   Target("protein", "calories", 10, 35),
   Target("carbs", "calories", NULL, NULL),
   Target("fibers", "calories", NULL, 5),
   Target("sugar", "calories", NULL, 10),
   Target("mufa", "fat", NULL, NULL),
   Target("omega6", "omega3", NULL, 4),
   Target("omega6", "omega3", NULL, NULL),
   Target("pufa", "sfa", 1, NULL),
   Target("pufa", "sfa", NULL, 150),
   Target("protein", "fat", NULL, NULL)}

\* --- calculateKcal (amounts in tenths of a gram) -----------------------------------
\* calculateKcal that cuts the fraction off instead of rounding
calculateKcalTruncating(protein, fat, carbs, fibers) ==
  LET digestibleCarbs == IF carbs - fibers > 0 THEN carbs - fibers ELSE 0 IN
  (30 * protein + 37 * digestibleCarbs + 20 * fibers + 90 * fat) \div 100

calculateKcal(protein, fat, carbs, fibers) ==
  LET digestibleCarbs == IF carbs - fibers > 0 THEN carbs - fibers ELSE 0 IN
  IF protein = 0 /\ fat = 0 /\ carbs = 0 /\ fibers = 0 THEN 0
  ELSE MathRound(30 * protein + 37 * digestibleCarbs + 20 * fibers + 90 * fat, 100)

\* --- calculateAllTargets -----------------------------------------------------------
getNutrientTotal(nutrient, tot) ==
  IF nutrient = NoNutrient \/ nutrient \notin DOMAIN tot THEN 0
  ELSE IF tot[nutrient] = NULL THEN 0 ELSE tot[nutrient]

totalCalories(tot) ==
  calculateKcal(getNutrientTotal("protein", tot), getNutrientTotal("fat", tot),
                getNutrientTotal("carbs", tot), getNutrientTotal("fibers", tot))

\* getNutrientTotal(n, effectiveTotals) in hundredths: of a gram, or of a kcal for
\* calories
EffectiveTotal(nutrient, tot) ==
  IF nutrient = "calories" THEN 100 * totalCalories(tot)
  ELSE 10 * getNutrientTotal(nutrient, tot)

\* the kcal contribution of nutrient_1 (hundredths of a kcal)
KcalContribution(n1, tot) ==
  LET netCarbs == getNutrientTotal("carbs", tot) - getNutrientTotal("fibers", tot) IN
  CASE n1 = "protein" -> 30 * getNutrientTotal("protein", tot)
    [] n1 = "fat" -> 90 * getNutrientTotal("fat", tot)
    [] n1 = "carbs" -> 37 * netCarbs
    [] n1 = "fibers" -> 20 * getNutrientTotal("fibers", tot)

\* which branch of the relative calculation a pair takes
RelativeKind(n1, n2) ==
  IF n2 = "calories"
    THEN IF n1 \in {"protein", "fat", "carbs", "fibers"} THEN "kcal_percent"
         ELSE "throw_kcal_percent"
  ELSE IF n2 = "fat" /\ n1 \in {"mufa", "pufa", "sfa"} THEN "grams"
  ELSE IF (n1 = "omega6" /\ n2 = "omega3") \/ (n1 = "pufa" /\ n2 = "sfa") THEN "grams"
  ELSE "throw_unsupported"

Throws(target) ==
  /\ target.nutrient_2 # NoNutrient
  /\ RelativeKind(target.nutrient_1, target.nutrient_2)
       \in {"throw_kcal_percent", "throw_unsupported"}

calcValue1(target, tot) ==
  IF RelativeKind(target.nutrient_1, target.nutrient_2) = "kcal_percent"
    THEN KcalContribution(target.nutrient_1, tot)
    ELSE EffectiveTotal(target.nutrient_1, tot)

calcValue2(target, tot) == EffectiveTotal(target.nutrient_2, tot)

\* a division that is never guarded
DenominatorNeverZero(v) == FALSE

\* the guard of the division (calcValue2 === 0)
DenominatorIsZero(v) == v = 0

\* actualValue of a target that does not throw
ActualValue(target, tot) ==
  IF target.nutrient_2 = NoNutrient
    THEN <<Num(EffectiveTotal(target.nutrient_1, tot), 100)>>
  ELSE IF DenominatorIsZero(calcValue2(target, tot)) THEN NoValue
  ELSE <<JsDivide(100 * calcValue1(target, tot), calcValue2(target, tot))>>

\* the display range, before the rounding
InitialMax(target) ==
  IF target.nutrient_2 = NoNutrient
    THEN LET m == IF target.max_value # NULL THEN Num(12 * target.max_value, 10)
                  ELSE IF target.min_value # NULL THEN Num(2 * target.min_value, 1)
                  ELSE Num(100, 1)
         IN IF m.n <= 0 THEN Num(10, 1) ELSE m
    ELSE LET m == IF target.nutrient_1 = "omega6" /\ target.nutrient_2 = "omega3"
                    THEN IF target.max_value # NULL THEN Num(2 * target.max_value, 1)
                         ELSE Num(10000, 1)
                    ELSE Num(100, 1)
         IN IF m.n <= 0 THEN Num(100, 1) ELSE m

\* a range without the 5 percent above the actual value
UnpaddedMax(actual) ==
  IF actual = NoValue THEN Num(0, 1) ELSE actual[1]

PaddedMax(actual) ==
  IF actual = NoValue THEN Num(0, 1) ELSE Num(21 * actual[1].n, 20 * actual[1].d)

\* the custom rounding of displayMax
PrettyMax(v) ==
  IF NumLess(v, Num(30, 1)) THEN CeilTo(v, 1)
  ELSE IF NumLess(v, Num(300, 1)) THEN CeilTo(v, 10)
  ELSE IF NumLess(v, Num(3500, 1)) THEN CeilTo(v, 100)
  ELSE CeilTo(v, 1000)

DisplayMax(target, actual) ==
  LET m == NumMax(InitialMax(target), PaddedMax(actual))
      fallback == IF target.nutrient_2 = NoNutrient THEN Num(10, 1) ELSE Num(100, 1)
  IN PrettyMax(IF m.n <= 0 THEN fallback ELSE m)

\* one element of the map: the result for one target
CalculatedTarget(target, tot) ==
  LET n1 == target.nutrient_1
      n2 == target.nutrient_2
  IN IF Throws(target)
       THEN \* caught: the error is recorded, the display range keeps its defaults
            [nutrient_1 |-> n1, nutrient_2 |-> n2, min_value |-> target.min_value,
             max_value |-> target.max_value, actualValue |-> NoValue,
             displayUnit |-> "%",
             calculationError |->
               IF RelativeKind(n1, n2) = "throw_kcal_percent"
                 THEN "cannot_calculate_kcal_percent" ELSE "unsupported_relative_target",
             displayMin |-> Num(0, 1), displayMax |-> Num(100, 1)]
       ELSE LET actual == ActualValue(target, tot) IN
            [nutrient_1 |-> n1, nutrient_2 |-> n2, min_value |-> target.min_value,
             max_value |-> target.max_value, actualValue |-> actual,
             displayUnit |-> IF n2 # NoNutrient THEN "%"
                             ELSE IF n1 = "calories" THEN "kcal" ELSE "g",
             calculationError |->
               IF n2 # NoNutrient /\ actual = NoValue THEN "denominator_is_zero" ELSE "",
             displayMin |-> Num(0, 1), displayMax |-> DisplayMax(target, actual)]

\* an evaluation in which one throwing target aborts the whole map
calculateAllTargetsAborting(targetDefs, tot) ==
  IF DOMAIN tot = {} \/ \E i \in DOMAIN targetDefs : Throws(targetDefs[i]) THEN <<>>
  ELSE [i \in DOMAIN targetDefs |-> CalculatedTarget(targetDefs[i], tot)]

calculateAllTargets(targetDefs, tot) ==
  IF DOMAIN tot = {} THEN <<>>
  ELSE [i \in DOMAIN targetDefs |-> CalculatedTarget(targetDefs[i], tot)]

\* the modal before it gets its props, and while another component is modelled
TgtQuiet ==
  /\ dailyTotals = EmptyTotals
  /\ targets = <<>>
  /\ calculatedTargets = <<>>

\* the parent passes new daily totals
SetDailyTotals(tot) ==
  /\ tot # dailyTotals
  /\ dailyTotals' = tot
  /\ calculatedTargets' = calculateAllTargets(targets, tot)
  /\ UNCHANGED targets
  /\ UNCHANGED notTgt

\* the parent passes the targets with one more, or one less
AddTarget(target) ==
  /\ Len(targets) < MaxTargets
  /\ targets' = Append(targets, target)
  /\ calculatedTargets' = calculateAllTargets(targets', dailyTotals)
  /\ UNCHANGED dailyTotals
  /\ UNCHANGED notTgt

RemoveTarget(index) ==
  /\ index \in DOMAIN targets
  /\ targets' = RemoveAt(targets, index)
  /\ calculatedTargets' = calculateAllTargets(targets', dailyTotals)
  /\ UNCHANGED dailyTotals
  /\ UNCHANGED notTgt

TgtNext ==
  \/ \E tot \in TotalsChoices : SetDailyTotals(tot)
  \/ \E target \in TargetDefs : AddTarget(target)
  \/ \E index \in 1..MaxTargets : RemoveTarget(index)

\* ===========================================================================
\*  The target progress bar
\* ===========================================================================
GREEN_COLOR == "bg-green-300"

RED_COLOR == "bg-red-300"

GRAY_COLOR == "bg-gray-200"

\* A percentage p of the bar is held as the distance p * range / 100 from dispMin:
\* the boundaries are then whole numbers, range standing for 100 percent.
BarSegment(color, width) == [color |-> color, widthPercent |-> width]

\* Math.max(0, Math.min(100, ((actual - dispMin) / range) * 100))
PositionPercent(actual, dispMin, range) ==
  LET v == Num(actual.n - dispMin * actual.d, actual.d) IN
  IF v.n < 0 THEN Num(0, 1)
  ELSE IF NumLess(Num(range, 1), v) THEN Num(range, 1)
  ELSE v

\* the same for a boundary, which is a whole number
TargetPercent(value, dispMin, range) ==
  IF value - dispMin < 0 THEN 0
  ELSE IF value - dispMin > range THEN range
  ELSE value - dispMin

\* a bar that keeps no segment up to a boundary
NeverWideEnough(width, range) == FALSE

\* width > 0.01
WideEnough(width, range) == 10000 * width > range

\* addSegment: bar is the segments so far and currentPos
addSegment(bar, value, color, dispMin, range) ==
  LET targetPercent == TargetPercent(value, dispMin, range)
      width == targetPercent - bar.currentPos
  IN [barSegments |-> IF WideEnough(width, range)
                        THEN Append(bar.barSegments, BarSegment(color, width))
                        ELSE bar.barSegments,
      currentPos |-> targetPercent]

\* the segment from currentPos to the end of the bar
RemainingSegment(bar, color, range) ==
  LET remainingWidth == range - bar.currentPos IN
  IF remainingWidth > 0 THEN Append(bar.barSegments, BarSegment(color, remainingWidth))
  ELSE bar.barSegments

RECURSIVE TotalWidth(_)
TotalWidth(segments) ==
  IF segments = <<>> THEN 0
  ELSE Head(segments).widthPercent + TotalWidth(Tail(segments))

\* the segments made to fill the bar: below 99.9 percent the last one is
\* widened, above 100.1 percent it is trimmed
FillBar(segments, range) ==
  LET totalWidth == TotalWidth(segments)
      last == Len(segments)
  IN IF 1000 * totalWidth < 999 * range /\ last > 0
       THEN [segments EXCEPT ![last].widthPercent = @ + (range - totalWidth)]
     ELSE IF 1000 * totalWidth > 1001 * range /\ last > 0
       THEN [segments EXCEPT ![last].widthPercent = @ - (totalWidth - range)]
     ELSE segments

\* min and max are NULL or whole numbers, actual is a number, dispMin and dispMax
\* are whole numbers
calculateVisualization(min, max, actual, dispMin, dispMax) ==
  LET range == dispMax - dispMin
      start == [barSegments |-> <<>>, currentPos |-> 0]
  IN IF actual.d = 0 /\ actual.n = 0
       THEN [positionPercent |-> Num(0, 1), range |-> range,
             barSegments |-> <<BarSegment(GRAY_COLOR, range)>>]
     ELSE IF range <= 0
       THEN [positionPercent |-> Num(1, 2), range |-> 1,
             barSegments |-> <<BarSegment(GRAY_COLOR, 1)>>]
     ELSE
       [positionPercent |-> PositionPercent(actual, dispMin, range),
        range |-> range,
        barSegments |->
          FillBar(
            IF min # NULL /\ max # NULL
              THEN RemainingSegment(
                     addSegment(addSegment(start, min, RED_COLOR, dispMin, range),
                                max, GREEN_COLOR, dispMin, range),
                     RED_COLOR, range)
            ELSE IF min # NULL
              THEN RemainingSegment(addSegment(start, min, RED_COLOR, dispMin, range),
                                    GREEN_COLOR, range)
            ELSE IF max # NULL
              THEN RemainingSegment(addSegment(start, max, GREEN_COLOR, dispMin, range),
                                    RED_COLOR, range)
            ELSE <<BarSegment(GRAY_COLOR, range)>>,
            range)]

\* the modal draws a bar for a target that has no calculationError, with
\* actualValue ?? 0
BarDrawn(target) == target.calculationError = ""

ProgressBar(target) ==
  calculateVisualization(target.min_value, target.max_value,
                         IF target.actualValue = NoValue THEN Num(0, 1)
                         ELSE target.actualValue[1],
                         target.displayMin.n, target.displayMax.n)

\* ===========================================================================
\*  calculateKcal applied to an item
\* ===========================================================================
\* whole grams, in tenths of a gram, that a field of the item may hold
KcalAmounts == {0, 50, 100, 200}

KcalKeys == {"protein", "fat", "carbs", "fibers"}

\* the items: each field is absent, null or an amount
KcalItems ==
  UNION {[present -> KcalAmounts \cup {NULL}] : present \in SUBSET KcalKeys}

\* item.k ?? 0
FieldOrZero(item, k) == IF k \notin DOMAIN item \/ item[k] = NULL THEN 0 ELSE item[k]

\* calculateKcal(item)
KcalOfItem(item) ==
  calculateKcal(FieldOrZero(item, "protein"), FieldOrZero(item, "fat"),
                FieldOrZero(item, "carbs"), FieldOrZero(item, "fibers"))

NotCalculated == <<>>

\* a caller passes the item and keeps the result
ApplyCalculateKcal ==
  /\ kcalResult = NotCalculated
  /\ kcalResult' = <<KcalOfItem(kcalItem)>>
  /\ UNCHANGED kcalItem
  /\ UNCHANGED notKcal

\* the caller has another item
NextKcalItem(item) ==
  /\ kcalResult # NotCalculated
  /\ item \in KcalItems /\ item # kcalItem
  /\ kcalItem' = item
  /\ kcalResult' = NotCalculated
  /\ UNCHANGED notKcal

KcalQuiet ==
  /\ kcalItem = [k \in {} |-> 0]
  /\ kcalResult = NotCalculated

KcalInit ==
  /\ kcalItem \in KcalItems
  /\ kcalResult = NotCalculated

KcalNext ==
  \/ ApplyCalculateKcal
  \/ \E item \in KcalItems : NextKcalItem(item)

\* ===========================================================================
\*  The log page
\* ===========================================================================
MaxLogRows == 2
MaxLogCalls == 2

\* the ids the table's sequence hands out
MaxLogId == 2

\* rows fetched per page (50 in the program; scaled down with the table)
logsPerPage == 1

NoLogId == 0

\* a row of food_log; the multiplier is in hundredths, food_item_id 0 is null
LogRow(id, item, multiplier) == [id |-> id, food_item_id |-> item, multiplier |-> multiplier]

\* the tables the page may be opened on
InitialLogTables ==
  {<<>>,
   <<LogRow(1, 1, 100)>>,
   <<LogRow(2, 0, 100), LogRow(1, 1, 100)>>}

\* --- the value bound to the edit input -----------------------------------------
\* a number input yields a number, or for an empty field null (undefined in older
\* builds of the framework); a text input yields a string
NumberValue(n) == [kind |-> "number", n |-> n]

NullValue == [kind |-> "null", n |-> 0]

UndefinedValue == [kind |-> "undefined", n |-> 0]

\* a string: n = 1 a date-time that parses, n = 0 the empty string
TextValue(n) == [kind |-> "text", n |-> n]

EmptyString == [kind |-> "text", n |-> 0]

\* what the user can leave in the number input besides the row's own value
MultiplierInputs == {NumberValue(0), NumberValue(0 - 200), NullValue, UndefinedValue}

TimestampInputs == {TextValue(0), TextValue(1)}

\* Number(v): NaN for undefined and for a date-time string, 0 for null and for the
\* empty string
JsNumber(v) ==
  CASE v.kind = "number" -> [nan |-> FALSE, n |-> v.n]
    [] v.kind = "undefined" -> [nan |-> TRUE, n |-> 0]
    [] OTHER -> [nan |-> (v.kind = "text" /\ v.n = 1), n |-> 0]

\* --- storage ---------------------------------------------------------------------
\* .range(from, to) of the table ordered by logged_at, newest first
PageOf(table, from) ==
  SubSeq(table, from + 1, IF from + logsPerPage < Len(table) THEN from + logsPerPage
                          ELSE Len(table))

\* an insert that stores the default multiplier, whatever it was given
InsertLogWithDefault(table, id, item, multiplier) == <<LogRow(id, item, 100)>> \o table

\* an insert takes the next id of the sequence and is the newest row
InsertLog(table, id, item, multiplier) == <<LogRow(id, item, multiplier)>> \o table

DeleteLogRow(table, id) == SelectSeq(table, LAMBDA r : r.id # id)

WithoutCall(calls, n) ==
  [j \in 1..(Len(calls) - 1) |-> IF j < n THEN calls[j] ELSE calls[j + 1]]

\* the update of one row; a timestamp update moves the row to the front (latest)
\* or to the back (earliest)
UpdateLogRow(table, call) ==
  LET hit == {i \in DOMAIN table : table[i].id = call.id} IN
  IF hit = {} THEN table
  ELSE LET i == CHOOSE j \in hit : TRUE IN
       IF call.field = "multiplier"
         THEN [table EXCEPT ![i].multiplier = call.value]
       ELSE IF call.value = 1 THEN <<table[i]>> \o DeleteLogRow(table, call.id)
       ELSE Append(DeleteLogRow(table, call.id), table[i])

Call(op, id, field, value, loadMore, caller) ==
  [op |-> op, id |-> id, field |-> field, value |-> value, loadMore |-> loadMore,
   caller |-> caller]

FetchCall(loadMore, from, caller) == Call("fetch", 0, "", from, loadMore, caller)

\* --- fetchRecentLogs ---------------------------------------------------------------
\* the part before the await: flags, page counter, and the request with its range
BeginFetch(loadMore, caller, calls) ==
  /\ IF loadMore
       THEN /\ loadingMore' = TRUE
            /\ currentPage' = currentPage + 1
            /\ UNCHANGED <<loadingLogs, recentLogs>>
       ELSE /\ loadingLogs' = TRUE
            /\ currentPage' = 0
            /\ recentLogs' = <<>>
            /\ UNCHANGED loadingMore
  /\ logError' = ""
  /\ logCalls' = Append(calls, FetchCall(loadMore, currentPage' * logsPerPage, caller))

\* logSelectedItem resets isLogging when the refresh it awaits has ended
AfterFetch(call) == IF call.caller = "log" THEN FALSE ELSE isLogging

fetchRecentLogsDone(n) ==
  /\ n \in DOMAIN logCalls /\ logCalls[n].op = "fetch"
  /\ LET call == logCalls[n]
         newLogs == PageOf(foodLog, call.value)
     IN /\ recentLogs' = IF call.loadMore THEN recentLogs \o newLogs ELSE newLogs
        /\ canLoadMore' = (Len(newLogs) = logsPerPage)
        /\ isLogging' = AfterFetch(call)
  /\ loadingLogs' = FALSE
  /\ loadingMore' = FALSE
  /\ logCalls' = WithoutCall(logCalls, n)
  /\ UNCHANGED <<foodLog, nextLogId, currentPage, logError, editingLogId, editingProperty, editingValue>>
  /\ UNCHANGED notLog

fetchRecentLogsFail(n) ==
  /\ n \in DOMAIN logCalls /\ logCalls[n].op = "fetch"
  /\ logError' = "fetch_failed"
  /\ currentPage' = IF logCalls[n].loadMore THEN currentPage - 1 ELSE currentPage
  /\ isLogging' = AfterFetch(logCalls[n])
  /\ loadingLogs' = FALSE
  /\ loadingMore' = FALSE
  /\ logCalls' = WithoutCall(logCalls, n)
  /\ UNCHANGED <<foodLog, nextLogId, recentLogs, canLoadMore, editingLogId, editingProperty, editingValue>>
  /\ UNCHANGED notLog

\* the list, with its edit inputs and buttons, is rendered only in this case
ListShown == ~loadingLogs /\ logError = "" /\ Len(recentLogs) > 0

CanCall == Len(logCalls) < MaxLogCalls

loadMoreLogs ==
  /\ ListShown /\ canLoadMore /\ ~loadingMore
  /\ CanCall
  /\ BeginFetch(TRUE, "", logCalls)
  /\ UNCHANGED <<foodLog, nextLogId, canLoadMore, isLogging, editingLogId, editingProperty, editingValue>>
  /\ UNCHANGED notLog

\* --- inline editing ------------------------------------------------------------------
startEditing(i, property) ==
  /\ ListShown /\ i \in DOMAIN recentLogs
  /\ editingLogId' = recentLogs[i].id
  /\ editingProperty' = property
  /\ editingValue' = IF property = "multiplier" THEN NumberValue(recentLogs[i].multiplier)
                     ELSE TextValue(1)
  /\ UNCHANGED <<foodLog, nextLogId, recentLogs, currentPage, canLoadMore, loadingLogs, loadingMore,
                 logError, isLogging, logCalls>>
  /\ UNCHANGED notLog

\* the input of the row being edited is in the document
EditInputShown ==
  /\ ListShown
  /\ editingLogId # NoLogId
  /\ \E i \in DOMAIN recentLogs : recentLogs[i].id = editingLogId

\* the user types into the input (bind:value)
EditInput(v) ==
  /\ EditInputShown
  /\ v \in (IF editingProperty = "multiplier" THEN MultiplierInputs ELSE TimestampInputs)
  /\ v # editingValue
  /\ editingValue' = v
  /\ UNCHANGED <<foodLog, nextLogId, recentLogs, currentPage, canLoadMore, loadingLogs, loadingMore,
                 logError, isLogging, editingLogId, editingProperty, logCalls>>
  /\ UNCHANGED notLog

cancelEdit ==
  /\ EditInputShown
  /\ editingLogId' = NoLogId
  /\ editingProperty' = ""
  /\ editingValue' = EmptyString
  /\ UNCHANGED <<foodLog, nextLogId, recentLogs, currentPage, canLoadMore, loadingLogs, loadingMore,
                 logError, isLogging, logCalls>>
  /\ UNCHANGED notLog

\* the validation of saveLogUpdate: "" when the value is accepted
ValidationError(property, v) ==
  IF property = "multiplier"
    THEN IF JsNumber(v).nan THEN "invalid_multiplier" ELSE ""
    ELSE IF v.n = 0 THEN "invalid_timestamp" ELSE ""

\* updateData of an accepted value: the multiplier, or which way the row moves
UpdateValue(property, v) == IF property = "multiplier" THEN JsNumber(v).n ELSE 1

\* saveLogUpdate up to the storage call (Enter in the input, or its blur)
saveLogUpdate ==
  /\ EditInputShown
  /\ editingProperty # ""
  /\ CanCall
  /\ IF ValidationError(editingProperty, editingValue) # ""
       THEN /\ logError' = ValidationError(editingProperty, editingValue)
            /\ UNCHANGED logCalls
       ELSE /\ logError' = ""
            /\ logCalls' = Append(logCalls,
                 Call("update", editingLogId, editingProperty,
                      UpdateValue(editingProperty, editingValue), FALSE, ""))
  /\ UNCHANGED <<foodLog, nextLogId, recentLogs, currentPage, canLoadMore, loadingLogs, loadingMore,
                 isLogging, editingLogId, editingProperty, editingValue>>
  /\ UNCHANGED notLog

\* the update succeeded: leave editing mode and refresh
saveLogUpdateOk(n) ==
  /\ n \in DOMAIN logCalls /\ logCalls[n].op = "update"
  /\ foodLog' = UpdateLogRow(foodLog, logCalls[n])
  /\ editingLogId' = NoLogId
  /\ editingProperty' = ""
  /\ editingValue' = EmptyString
  /\ BeginFetch(FALSE, "", WithoutCall(logCalls, n))
  /\ UNCHANGED <<nextLogId, canLoadMore, isLogging>>
  /\ UNCHANGED notLog

saveLogUpdateFail(n) ==
  /\ n \in DOMAIN logCalls /\ logCalls[n].op = "update"
  /\ logError' = "update_failed"
  /\ logCalls' = WithoutCall(logCalls, n)
  /\ UNCHANGED <<foodLog, nextLogId, recentLogs, currentPage, canLoadMore, loadingLogs, loadingMore,
                 isLogging, editingLogId, editingProperty, editingValue>>
  /\ UNCHANGED notLog

\* --- logSelectedItem, copyLog, deleteLog -------------------------------------------------
\* inserts in flight
PendingInserts == Cardinality({n \in DOMAIN logCalls : logCalls[n].op = "insert"})

\* the table has room and the sequence has an id left for one more insert
CanInsertLog ==
  /\ Len(foodLog) + PendingInserts < MaxLogRows
  /\ nextLogId + PendingInserts <= MaxLogId

logSelectedItem(item) ==
  /\ ~isLogging
  /\ CanCall /\ CanInsertLog
  /\ isLogging' = TRUE
  /\ logCalls' = Append(logCalls, Call("insert", item, "", 100, FALSE, "log"))
  /\ UNCHANGED <<foodLog, nextLogId, recentLogs, currentPage, canLoadMore, loadingLogs, loadingMore,
                 logError, editingLogId, editingProperty, editingValue>>
  /\ UNCHANGED notLog

copyLog(i) ==
  /\ ListShown /\ i \in DOMAIN recentLogs
  /\ CanCall /\ CanInsertLog
  /\ IF recentLogs[i].food_item_id = 0
       THEN /\ logError' = "copy_missing_item"
            /\ UNCHANGED logCalls
       ELSE /\ logCalls' = Append(logCalls,
                 Call("insert", recentLogs[i].food_item_id, "", recentLogs[i].multiplier,
                      FALSE, "copy"))
            /\ UNCHANGED logError
  /\ UNCHANGED <<foodLog, nextLogId, recentLogs, currentPage, canLoadMore, loadingLogs, loadingMore,
                 isLogging, editingLogId, editingProperty, editingValue>>
  /\ UNCHANGED notLog

\* the insert of logSelectedItem or copyLog succeeded: refresh
insertLogOk(n) ==
  /\ n \in DOMAIN logCalls /\ logCalls[n].op = "insert"
  /\ foodLog' = InsertLog(foodLog, nextLogId, logCalls[n].id, logCalls[n].value)
  /\ nextLogId' = nextLogId + 1
  /\ BeginFetch(FALSE, IF logCalls[n].caller = "log" THEN "log" ELSE "", WithoutCall(logCalls, n))
  /\ UNCHANGED <<canLoadMore, isLogging, editingLogId, editingProperty, editingValue>>
  /\ UNCHANGED notLog

insertLogFail(n) ==
  /\ n \in DOMAIN logCalls /\ logCalls[n].op = "insert"
  /\ logError' = IF logCalls[n].caller = "log" THEN "log_failed" ELSE "copy_failed"
  /\ isLogging' = IF logCalls[n].caller = "log" THEN FALSE ELSE isLogging
  /\ logCalls' = WithoutCall(logCalls, n)
  /\ UNCHANGED <<foodLog, nextLogId, recentLogs, currentPage, canLoadMore, loadingLogs, loadingMore,
                 editingLogId, editingProperty, editingValue>>
  /\ UNCHANGED notLog

\* the user confirmed the dialog
deleteLog(i) ==
  /\ ListShown /\ i \in DOMAIN recentLogs
  /\ CanCall
  /\ logCalls' = Append(logCalls, Call("delete", recentLogs[i].id, "", 0, FALSE, ""))
  /\ UNCHANGED <<foodLog, nextLogId, recentLogs, currentPage, canLoadMore, loadingLogs, loadingMore,
                 logError, isLogging, editingLogId, editingProperty, editingValue>>
  /\ UNCHANGED notLog

deleteLogOk(n) ==
  /\ n \in DOMAIN logCalls /\ logCalls[n].op = "delete"
  /\ foodLog' = DeleteLogRow(foodLog, logCalls[n].id)
  /\ BeginFetch(FALSE, "", WithoutCall(logCalls, n))
  /\ UNCHANGED <<nextLogId, canLoadMore, isLogging, editingLogId, editingProperty, editingValue>>
  /\ UNCHANGED notLog

deleteLogFail(n) ==
  /\ n \in DOMAIN logCalls /\ logCalls[n].op = "delete"
  /\ logError' = "delete_failed"
  /\ logCalls' = WithoutCall(logCalls, n)
  /\ UNCHANGED <<foodLog, nextLogId, recentLogs, currentPage, canLoadMore, loadingLogs, loadingMore,
                 isLogging, editingLogId, editingProperty, editingValue>>
  /\ UNCHANGED notLog

\* the page's own fields as declared, with nothing in flight
LogQuiet ==
  /\ foodLog = <<>>
  /\ nextLogId = 1
  /\ recentLogs = <<>>
  /\ currentPage = 0
  /\ canLoadMore = TRUE
  /\ loadingLogs = TRUE
  /\ loadingMore = FALSE
  /\ logError = ""
  /\ isLogging = FALSE
  /\ editingLogId = NoLogId
  /\ editingProperty = ""
  /\ editingValue = EmptyString
  /\ logCalls = <<>>

\* the page mounted on some table: onMount has called fetchRecentLogs()
LogInit ==
  /\ foodLog \in InitialLogTables
  /\ nextLogId = Len(foodLog) + 1
  /\ recentLogs = <<>>
  /\ currentPage = 0
  /\ canLoadMore = TRUE
  /\ loadingLogs = TRUE
  /\ loadingMore = FALSE
  /\ logError = ""
  /\ isLogging = FALSE
  /\ editingLogId = NoLogId
  /\ editingProperty = ""
  /\ editingValue = EmptyString
  /\ logCalls = <<FetchCall(FALSE, 0, "")>>

LogNext ==
  \/ \E n \in 1..MaxLogCalls : fetchRecentLogsDone(n)
  \/ \E n \in 1..MaxLogCalls : fetchRecentLogsFail(n)
  \/ loadMoreLogs
  \/ \E i \in 1..MaxLogRows, property \in {"multiplier", "timestamp"} : startEditing(i, property)
  \/ \E v \in MultiplierInputs \cup TimestampInputs : EditInput(v)
  \/ cancelEdit
  \/ saveLogUpdate
  \/ \E n \in 1..MaxLogCalls : saveLogUpdateOk(n)
  \/ \E n \in 1..MaxLogCalls : saveLogUpdateFail(n)
  \/ \E item \in DOMAIN InitialCatalog : logSelectedItem(item)
  \/ \E i \in 1..MaxLogRows : copyLog(i)
  \/ \E n \in 1..MaxLogCalls : insertLogOk(n)
  \/ \E n \in 1..MaxLogCalls : insertLogFail(n)
  \/ \E i \in 1..MaxLogRows : deleteLog(i)
  \/ \E n \in 1..MaxLogCalls : deleteLogOk(n)
  \/ \E n \in 1..MaxLogCalls : deleteLogFail(n)

\* ===========================================================================
\*  The food items page
\* ===========================================================================
MaxItemRows == 1
MaxItemCalls == 1

\* ids handed out by food_items
MaxItemId == 2

NoItemId == 0

\* a row of food_items, with one of its nutrient columns
ItemRow(id, name, qty, protein) ==
  [id |-> id, name |-> name, serving_qty |-> qty, protein |-> protein]

\* the tables the page may be opened on
InitialItemTables == {<<>>, <<ItemRow(1, "oats", 100, NULL)>>}

\* the columns edited inline; protein is one of numericFields
ItemProperties == {"serving_qty", "protein"}

numericFields == {"protein"}

\* what the user can leave in a number input
ItemInputs == {NumberValue(0), NullValue, UndefinedValue}

\* two of the four units of the form's select
servingUnits == {"g", "portion"}

NewNames == {"", "rice"}

ItemCall(op, id, property, value, row) ==
  [op |-> op, id |-> id, property |-> property, value |-> value, row |-> row]

NoEdit == [id |-> NoItemId, property |-> "", value |-> NullValue]

\* newItem = {}
NoNewItem == <<>>

\* --- fetchFoodItems ----------------------------------------------------------------
fetchFoodItemsDone(n) ==
  /\ n \in DOMAIN itemCalls /\ itemCalls[n].op = "fetch"
  /\ foodItems' = itemTable
  /\ itemsLoading' = FALSE
  /\ itemCalls' = WithoutCall(itemCalls, n)
  /\ UNCHANGED <<itemTable, nextItemId, itemsError, itemEdit, itemsCreating, newItem>>
  /\ UNCHANGED notItems

fetchFoodItemsFail(n) ==
  /\ n \in DOMAIN itemCalls /\ itemCalls[n].op = "fetch"
  /\ itemsError' = "load_failed"
  /\ foodItems' = <<>>
  /\ itemsLoading' = FALSE
  /\ itemCalls' = WithoutCall(itemCalls, n)
  /\ UNCHANGED <<itemTable, nextItemId, itemEdit, itemsCreating, newItem>>
  /\ UNCHANGED notItems

CanCallItems == Len(itemCalls) < MaxItemCalls

\* --- inline editing ------------------------------------------------------------------
\* item[property] as it is put into editingValue
ValueOf(row, property) ==
  IF row[property] = NULL THEN NullValue ELSE NumberValue(row[property])

startEditingItem(i, property) ==
  /\ i \in DOMAIN foodItems /\ property \in ItemProperties
  /\ itemsCreating' = FALSE
  /\ itemEdit' = [id |-> foodItems[i].id, property |-> property,
                  value |-> ValueOf(foodItems[i], property)]
  /\ UNCHANGED <<itemTable, nextItemId, foodItems, itemsLoading, itemsError, newItem,
                 itemCalls>>
  /\ UNCHANGED notItems

\* the input of the item being edited is in the document
ItemInputShown ==
  /\ itemEdit.id # NoItemId
  /\ \E i \in DOMAIN foodItems : foodItems[i].id = itemEdit.id

\* the user types into the input (bind:value)
EditItemInput(v) ==
  /\ ItemInputShown
  /\ v \in ItemInputs /\ v # itemEdit.value
  /\ itemEdit' = [itemEdit EXCEPT !.value = v]
  /\ UNCHANGED <<itemTable, nextItemId, foodItems, itemsLoading, itemsError, itemsCreating,
                 newItem, itemCalls>>
  /\ UNCHANGED notItems

\* Escape in the input
cancelItemEdit ==
  /\ ItemInputShown
  /\ itemEdit' = NoEdit
  /\ UNCHANGED <<itemTable, nextItemId, foodItems, itemsLoading, itemsError, itemsCreating,
                 newItem, itemCalls>>
  /\ UNCHANGED notItems

\* parseFloat(editingValue) for a numeric field, the value itself otherwise;
\* nan stands for NaN, kind "undefined" for a value that is not sent
ItemUpdateValue(property, v) ==
  IF property \in numericFields
    THEN IF v.kind = "number" THEN [nan |-> FALSE, kind |-> "number", n |-> v.n]
         ELSE [nan |-> TRUE, kind |-> "number", n |-> 0]
    ELSE [nan |-> FALSE, kind |-> v.kind, n |-> v.n]

\* originalItem[editingProperty] === updateValue
SameAsOriginal(row, property, u) ==
  /\ ~u.nan /\ u.kind = "number"
  /\ row[property] # NULL /\ row[property] = u.n

\* a row with the column set; an undefined value is not part of the request, and
\* reads as absent (NULL) in a local copy
PatchItem(row, property, u, local) ==
  IF u.kind = "number" THEN [row EXCEPT ![property] = u.n]
  ELSE IF local THEN [row EXCEPT ![property] = NULL]
  ELSE row

\* saveItemUpdate up to the storage call (Enter in the input, or its blur)
saveItemUpdate ==
  /\ ItemInputShown
  /\ itemEdit.value.kind # "null"
  /\ CanCallItems
  /\ LET originalItem == CHOOSE r \in {foodItems[i] : i \in DOMAIN foodItems} :
                           r.id = itemEdit.id
         u == ItemUpdateValue(itemEdit.property, itemEdit.value)
     IN IF u.nan \/ SameAsOriginal(originalItem, itemEdit.property, u)
          THEN /\ itemEdit' = NoEdit
               /\ UNCHANGED itemCalls
          ELSE /\ itemCalls' = Append(itemCalls,
                    ItemCall("update", itemEdit.id, itemEdit.property, u, <<>>))
               /\ UNCHANGED itemEdit
  /\ UNCHANGED <<itemTable, nextItemId, foodItems, itemsLoading, itemsError, itemsCreating,
                 newItem>>
  /\ UNCHANGED notItems

PatchRows(rows, id, property, u, local) ==
  [j \in DOMAIN rows |->
     IF rows[j].id = id THEN PatchItem(rows[j], property, u, local) ELSE rows[j]]

\* the update succeeded: the local row named by editingItemId, as it is now, gets
\* the value under editingProperty, as it is now; then cancelEdit
saveItemUpdateOk(n) ==
  /\ n \in DOMAIN itemCalls /\ itemCalls[n].op = "update"
  /\ itemTable' = PatchRows(itemTable, itemCalls[n].id, itemCalls[n].property,
                            itemCalls[n].value, FALSE)
  /\ foodItems' = IF itemEdit.id = NoItemId THEN foodItems
                  ELSE PatchRows(foodItems, itemEdit.id, itemEdit.property,
                                 itemCalls[n].value, TRUE)
  /\ itemEdit' = NoEdit
  /\ itemCalls' = WithoutCall(itemCalls, n)
  /\ UNCHANGED <<nextItemId, itemsLoading, itemsError, itemsCreating, newItem>>
  /\ UNCHANGED notItems

\* the update failed: logged to the console, cancelEdit
saveItemUpdateFail(n) ==
  /\ n \in DOMAIN itemCalls /\ itemCalls[n].op = "update"
  /\ itemEdit' = NoEdit
  /\ itemCalls' = WithoutCall(itemCalls, n)
  /\ UNCHANGED <<itemTable, nextItemId, foodItems, itemsLoading, itemsError, itemsCreating,
                 newItem>>
  /\ UNCHANGED notItems

\* --- deleteItem -----------------------------------------------------------------------
\* the user confirmed the dialog
deleteItem(i) ==
  /\ i \in DOMAIN foodItems
  /\ CanCallItems
  /\ itemCalls' = Append(itemCalls, ItemCall("delete", foodItems[i].id, "", NullValue, <<>>))
  /\ UNCHANGED <<itemTable, nextItemId, foodItems, itemsLoading, itemsError, itemEdit,
                 itemsCreating, newItem>>
  /\ UNCHANGED notItems

deleteItemOk(n) ==
  /\ n \in DOMAIN itemCalls /\ itemCalls[n].op = "delete"
  /\ itemTable' = SelectSeq(itemTable, LAMBDA r : r.id # itemCalls[n].id)
  /\ foodItems' = SelectSeq(foodItems, LAMBDA r : r.id # itemCalls[n].id)
  /\ itemCalls' = WithoutCall(itemCalls, n)
  /\ UNCHANGED <<nextItemId, itemsLoading, itemsError, itemEdit, itemsCreating, newItem>>
  /\ UNCHANGED notItems

deleteItemFail(n) ==
  /\ n \in DOMAIN itemCalls /\ itemCalls[n].op = "delete"
  /\ itemsError' = "delete_failed"
  /\ itemCalls' = WithoutCall(itemCalls, n)
  /\ UNCHANGED <<itemTable, nextItemId, foodItems, itemsLoading, itemEdit, itemsCreating,
                 newItem>>
  /\ UNCHANGED notItems

\* --- the new item form -----------------------------------------------------------------
NewItem(name, qty, unit) == <<[name |-> name, serving_qty |-> qty, serving_unit |-> unit]>>

showCreateForm ==
  /\ itemEdit' = NoEdit
  /\ itemsCreating' = TRUE
  /\ newItem' = NewItem("", NumberValue(100), "g")
  /\ UNCHANGED <<itemTable, nextItemId, foodItems, itemsLoading, itemsError, itemCalls>>
  /\ UNCHANGED notItems

cancelCreate ==
  /\ itemsCreating
  /\ itemsCreating' = FALSE
  /\ newItem' = NoNewItem
  /\ UNCHANGED <<itemTable, nextItemId, foodItems, itemsLoading, itemsError, itemEdit,
                 itemCalls>>
  /\ UNCHANGED notItems

\* bind:value of the form's name and quantity inputs
EditNewItem(name, qty) ==
  /\ itemsCreating /\ newItem # NoNewItem
  /\ name \in NewNames /\ qty \in ItemInputs
  /\ newItem # NewItem(name, qty, newItem[1].serving_unit)
  /\ newItem' = NewItem(name, qty, newItem[1].serving_unit)
  /\ UNCHANGED <<itemTable, nextItemId, foodItems, itemsLoading, itemsError, itemEdit,
                 itemsCreating, itemCalls>>
  /\ UNCHANGED notItems

\* the unit select: bind:value, then the default quantity of the unit
handleUnitChange(unit) ==
  /\ itemsCreating /\ newItem # NoNewItem
  /\ unit \in servingUnits /\ unit # newItem[1].serving_unit
  /\ newItem' = NewItem(newItem[1].name, NumberValue(IF unit = "g" THEN 100 ELSE 1), unit)
  /\ UNCHANGED <<itemTable, nextItemId, foodItems, itemsLoading, itemsError, itemEdit,
                 itemsCreating, itemCalls>>
  /\ UNCHANGED notItems

\* serving_qty === undefined || serving_qty <= 0, null comparing as 0
QtyRefused(qty) == qty.kind # "number" \/ qty.n <= 0

\* the validation of saveNewItem; a refusal is an alert and nothing else
NewItemRefused(form) == form.name = "" \/ QtyRefused(form.serving_qty)

CanInsertItem ==
  LET pending == Cardinality({n \in DOMAIN itemCalls : itemCalls[n].op = "insert"})
  IN /\ Len(itemTable) + pending < MaxItemRows
     /\ nextItemId + pending <= MaxItemId

\* saveNewItem up to the storage call
saveNewItem ==
  /\ itemsCreating /\ newItem # NoNewItem
  /\ CanCallItems /\ CanInsertItem
  /\ IF NewItemRefused(newItem[1])
       THEN UNCHANGED itemCalls
       ELSE itemCalls' = Append(itemCalls,
              ItemCall("insert", NoItemId, "", NullValue,
                       <<ItemRow(NoItemId, newItem[1].name, newItem[1].serving_qty.n, NULL)>>))
  /\ UNCHANGED <<itemTable, nextItemId, foodItems, itemsLoading, itemsError, itemEdit,
                 itemsCreating, newItem>>
  /\ UNCHANGED notItems

\* the insert succeeded: the returned row leads the local list, cancelCreate
saveNewItemOk(n) ==
  /\ n \in DOMAIN itemCalls /\ itemCalls[n].op = "insert"
  /\ LET row == [itemCalls[n].row[1] EXCEPT !.id = nextItemId]
     IN /\ itemTable' = Append(itemTable, row)
        /\ foodItems' = <<row>> \o foodItems
  /\ nextItemId' = nextItemId + 1
  /\ itemsCreating' = FALSE
  /\ newItem' = NoNewItem
  /\ itemCalls' = WithoutCall(itemCalls, n)
  /\ UNCHANGED <<itemsLoading, itemsError, itemEdit>>
  /\ UNCHANGED notItems

saveNewItemFail(n) ==
  /\ n \in DOMAIN itemCalls /\ itemCalls[n].op = "insert"
  /\ itemsError' = "save_failed"
  /\ itemCalls' = WithoutCall(itemCalls, n)
  /\ UNCHANGED <<itemTable, nextItemId, foodItems, itemsLoading, itemEdit, itemsCreating,
                 newItem>>
  /\ UNCHANGED notItems

\* the page's own fields as declared, with nothing in flight
ItemsQuiet ==
  /\ itemTable = <<>>
  /\ nextItemId = 1
  /\ foodItems = <<>>
  /\ itemsLoading = TRUE
  /\ itemsError = ""
  /\ itemEdit = NoEdit
  /\ itemsCreating = FALSE
  /\ newItem = NoNewItem
  /\ itemCalls = <<>>

\* the page mounted: onMount has called fetchFoodItems()
ItemsInit ==
  /\ itemTable \in InitialItemTables
  /\ nextItemId = Len(itemTable) + 1
  /\ foodItems = <<>>
  /\ itemsLoading = TRUE
  /\ itemsError = ""
  /\ itemEdit = NoEdit
  /\ itemsCreating = FALSE
  /\ newItem = NoNewItem
  /\ itemCalls = <<ItemCall("fetch", NoItemId, "", NullValue, <<>>)>>

ItemsNext ==
  \/ \E n \in 1..MaxItemCalls : fetchFoodItemsDone(n)
  \/ \E n \in 1..MaxItemCalls : fetchFoodItemsFail(n)
  \/ \E i \in 1..MaxItemRows, property \in ItemProperties : startEditingItem(i, property)
  \/ \E v \in ItemInputs : EditItemInput(v)
  \/ cancelItemEdit
  \/ saveItemUpdate
  \/ \E n \in 1..MaxItemCalls : saveItemUpdateOk(n)
  \/ \E n \in 1..MaxItemCalls : saveItemUpdateFail(n)
  \/ \E i \in 1..MaxItemRows : deleteItem(i)
  \/ \E n \in 1..MaxItemCalls : deleteItemOk(n)
  \/ \E n \in 1..MaxItemCalls : deleteItemFail(n)
  \/ showCreateForm
  \/ cancelCreate
  \/ \E name \in NewNames, qty \in ItemInputs : EditNewItem(name, qty)
  \/ \E unit \in servingUnits : handleUnitChange(unit)
  \/ saveNewItem
  \/ \E n \in 1..MaxItemCalls : saveNewItemOk(n)
  \/ \E n \in 1..MaxItemCalls : saveNewItemFail(n)


\* ===========================================================================
\*  The targets settings page
\* ===========================================================================
MaxTargetRows == 2
MaxTargetCalls == 1

\* ids handed out by nutrition_targets (uuids in the program)
MaxTargetId == 2

\* some of the twelve options of the absolute form
absoluteNutrientOptions == {"calories", "protein"}

\* some of the eight relative target types, with their n1 and n2
relativeTargetMappings ==
  ("protein_percent_calories" :> [n1 |-> "protein", n2 |-> "calories"]) @@
  ("omega6_omega3_ratio" :> [n1 |-> "omega6", n2 |-> "omega3"])

\* what the min and max inputs of a form hold: both empty (null), or two numbers
FormBounds == {<<NULL, NULL>>, <<20, 50>>}

TargetRow(id, n1, n2, min, max) ==
  [id |-> id, nutrient_1 |-> n1, nutrient_2 |-> n2, min_value |-> min, max_value |-> max]

\* alphabetical rank of the nutrient names in use; a null nutrient_2 sorts first
NutrientRank(n) ==
  CASE n = NoNutrient -> 0
    [] n = "calories" -> 1
    [] n = "omega3" -> 2
    [] n = "omega6" -> 3
    [] OTHER -> 4

\* .order('nutrient_1').order('nutrient_2', nullsFirst); equal pairs by id
RowBefore(a, b) ==
  \/ NutrientRank(a.nutrient_1) < NutrientRank(b.nutrient_1)
  \/ /\ a.nutrient_1 = b.nutrient_1
     /\ \/ NutrientRank(a.nutrient_2) < NutrientRank(b.nutrient_2)
        \/ a.nutrient_2 = b.nutrient_2 /\ a.id < b.id

\* the table is kept in the order fetchTargets asks for
InsertTargetRow(table, row) ==
  LET before == SelectSeq(table, LAMBDA r : RowBefore(r, row))
      after == SelectSeq(table, LAMBDA r : ~RowBefore(r, row))
  IN before \o <<row>> \o after

\* UNIQUE(nutrient_1, nutrient_2): rows with a null nutrient_2 never conflict,
\* nulls being distinct under a UNIQUE constraint
UniqueViolation(table, n1, n2) ==
  /\ n2 # NoNutrient
  /\ \E i \in DOMAIN table : table[i].nutrient_1 = n1 /\ table[i].nutrient_2 = n2

\* a request in flight; field names the column of an update
TargetCall(op, id, n1, n2, min, max, field) ==
  [op |-> op, id |-> id, nutrient_1 |-> n1, nutrient_2 |-> n2, min_value |-> min,
   max_value |-> max, field |-> field]

\* --- fetchTargets ----------------------------------------------------------------
\* the part before the await
BeginFetchTargets(calls) ==
  /\ targetsLoading' = TRUE
  /\ targetsError' = ""
  /\ targetCalls' = Append(calls, TargetCall("fetch", 0, "", "", NULL, NULL, ""))

fetchTargetsDone(n) ==
  /\ n \in DOMAIN targetCalls /\ targetCalls[n].op = "fetch"
  /\ settingsTargets' = targetTable
  /\ targetsLoading' = FALSE
  /\ targetCalls' = WithoutCall(targetCalls, n)
  /\ UNCHANGED <<targetTable, nextTargetId, targetsError, absoluteForm, relativeForm>>
  /\ UNCHANGED notSettings

fetchTargetsFail(n) ==
  /\ n \in DOMAIN targetCalls /\ targetCalls[n].op = "fetch"
  /\ targetsError' = "load_failed"
  /\ targetsLoading' = FALSE
  /\ targetCalls' = WithoutCall(targetCalls, n)
  /\ UNCHANGED <<targetTable, nextTargetId, settingsTargets, absoluteForm, relativeForm>>
  /\ UNCHANGED notSettings

CanCallTargets == Len(targetCalls) < MaxTargetCalls

\* --- the two forms ------------------------------------------------------------------
Form(kind, min, max) == [kind |-> kind, min |-> min, max |-> max]

\* bind:value of the absolute form's select and inputs
EditAbsoluteForm(nutrient, min, max) ==
  /\ nutrient \in absoluteNutrientOptions /\ <<min, max>> \in FormBounds
  /\ absoluteForm # Form(nutrient, min, max)
  /\ absoluteForm' = Form(nutrient, min, max)
  /\ UNCHANGED <<targetTable, nextTargetId, settingsTargets, targetsLoading, targetsError,
                 relativeForm, targetCalls>>
  /\ UNCHANGED notSettings

\* bind:value of the relative form's select and inputs
EditRelativeForm(type, min, max) ==
  /\ type \in DOMAIN relativeTargetMappings /\ <<min, max>> \in FormBounds
  /\ relativeForm # Form(type, min, max)
  /\ relativeForm' = Form(type, min, max)
  /\ UNCHANGED <<targetTable, nextTargetId, settingsTargets, targetsLoading, targetsError,
                 absoluteForm, targetCalls>>
  /\ UNCHANGED notSettings

\* rows of the table plus inserts in flight stay within the table's bound
CanInsertTarget ==
  LET pending == Cardinality({n \in DOMAIN targetCalls : targetCalls[n].op \in
                                {"insert_absolute", "insert_relative"}})
  IN /\ Len(targetTable) + pending < MaxTargetRows
     /\ nextTargetId + pending <= MaxTargetId

addAbsoluteTarget ==
  /\ CanCallTargets /\ CanInsertTarget
  /\ targetsError' = ""
  /\ targetCalls' = Append(targetCalls,
       TargetCall("insert_absolute", 0, absoluteForm.kind, NoNutrient,
                  absoluteForm.min, absoluteForm.max, ""))
  /\ UNCHANGED <<targetTable, nextTargetId, settingsTargets, targetsLoading,
                 absoluteForm, relativeForm>>
  /\ UNCHANGED notSettings

addRelativeTarget ==
  /\ CanCallTargets /\ CanInsertTarget
  /\ targetsError' = ""
  /\ targetCalls' = Append(targetCalls,
       TargetCall("insert_relative", 0, relativeTargetMappings[relativeForm.kind].n1,
                  relativeTargetMappings[relativeForm.kind].n2,
                  relativeForm.min, relativeForm.max, ""))
  /\ UNCHANGED <<targetTable, nextTargetId, settingsTargets, targetsLoading,
                 absoluteForm, relativeForm>>
  /\ UNCHANGED notSettings

\* the insert reached the table: the row is added, or the constraint refuses it
addTargetDone(n) ==
  /\ n \in DOMAIN targetCalls
  /\ targetCalls[n].op \in {"insert_absolute", "insert_relative"}
  /\ LET call == targetCalls[n] IN
     IF UniqueViolation(targetTable, call.nutrient_1, call.nutrient_2)
       THEN /\ targetsError' = "already_exists"
            /\ targetCalls' = WithoutCall(targetCalls, n)
            /\ UNCHANGED <<targetTable, nextTargetId, targetsLoading, absoluteForm,
                           relativeForm>>
       ELSE /\ targetTable' = InsertTargetRow(targetTable,
                 TargetRow(nextTargetId, call.nutrient_1, call.nutrient_2,
                           call.min_value, call.max_value))
            /\ nextTargetId' = nextTargetId + 1
            /\ IF call.op = "insert_absolute"
                 THEN /\ absoluteForm' = Form("calories", NULL, NULL)
                      /\ UNCHANGED relativeForm
                 ELSE /\ relativeForm' = Form("protein_percent_calories", NULL, NULL)
                      /\ UNCHANGED absoluteForm
            /\ BeginFetchTargets(WithoutCall(targetCalls, n))
  /\ UNCHANGED settingsTargets
  /\ UNCHANGED notSettings

\* the insert failed for another reason
addTargetFail(n) ==
  /\ n \in DOMAIN targetCalls
  /\ targetCalls[n].op \in {"insert_absolute", "insert_relative"}
  /\ targetsError' = "add_failed"
  /\ targetCalls' = WithoutCall(targetCalls, n)
  /\ UNCHANGED <<targetTable, nextTargetId, settingsTargets, targetsLoading,
                 absoluteForm, relativeForm>>
  /\ UNCHANGED notSettings

\* --- the table of current targets --------------------------------------------------
TargetsShown == ~targetsLoading /\ Len(settingsTargets) > 0

\* the user confirmed the dialog
deleteTarget(i) ==
  /\ TargetsShown /\ i \in DOMAIN settingsTargets
  /\ CanCallTargets
  /\ targetsError' = ""
  /\ targetCalls' = Append(targetCalls,
       TargetCall("delete", settingsTargets[i].id, "", "", NULL, NULL, ""))
  /\ UNCHANGED <<targetTable, nextTargetId, settingsTargets, targetsLoading,
                 absoluteForm, relativeForm>>
  /\ UNCHANGED notSettings

deleteTargetOk(n) ==
  /\ n \in DOMAIN targetCalls /\ targetCalls[n].op = "delete"
  /\ targetTable' = SelectSeq(targetTable, LAMBDA r : r.id # targetCalls[n].id)
  /\ BeginFetchTargets(WithoutCall(targetCalls, n))
  /\ UNCHANGED <<nextTargetId, settingsTargets, absoluteForm, relativeForm>>
  /\ UNCHANGED notSettings

deleteTargetFail(n) ==
  /\ n \in DOMAIN targetCalls /\ targetCalls[n].op = "delete"
  /\ targetsError' = "delete_failed"
  /\ targetCalls' = WithoutCall(targetCalls, n)
  /\ UNCHANGED <<targetTable, nextTargetId, settingsTargets, targetsLoading,
                 absoluteForm, relativeForm>>
  /\ UNCHANGED notSettings

\* valueAsNumber of a row's input: NaN when it is empty
NaNValue == [kind |-> "nan", n |-> 0]

RowInputs == {NaNValue, NumberValue(20)}

\* (value === null || isNaN(Number(value))) ? null : Number(value)
UpdateValueOf(value) == IF value.kind \in {"null", "nan"} THEN NULL ELSE value.n

SetField(row, field, value) ==
  IF field = "min_value" THEN [row EXCEPT !.min_value = value]
  ELSE [row EXCEPT !.max_value = value]

\* blur of a row's min or max input, to the await
saveTargetUpdate(i, field, value) ==
  /\ TargetsShown /\ i \in DOMAIN settingsTargets
  /\ value \in RowInputs
  /\ settingsTargets[i][field] # UpdateValueOf(value)
  /\ CanCallTargets
  /\ targetsError' = ""
  /\ targetCalls' = Append(targetCalls,
       SetField(TargetCall("update", settingsTargets[i].id, "", "", NULL, NULL, field),
                field, UpdateValueOf(value)))
  /\ UNCHANGED <<targetTable, nextTargetId, settingsTargets, targetsLoading,
                 absoluteForm, relativeForm>>
  /\ UNCHANGED notSettings

UpdateRows(rows, call) ==
  [j \in DOMAIN rows |->
     IF rows[j].id = call.id THEN SetField(rows[j], call.field, call[call.field])
     ELSE rows[j]]

\* the update succeeded: the local row is patched, or the list is fetched again
\* when the row is no longer in it
saveTargetUpdateOk(n) ==
  /\ n \in DOMAIN targetCalls /\ targetCalls[n].op = "update"
  /\ targetTable' = UpdateRows(targetTable, targetCalls[n])
  /\ IF \E j \in DOMAIN settingsTargets : settingsTargets[j].id = targetCalls[n].id
       THEN /\ settingsTargets' = UpdateRows(settingsTargets, targetCalls[n])
            /\ targetCalls' = WithoutCall(targetCalls, n)
            /\ UNCHANGED <<targetsLoading, targetsError>>
       ELSE /\ BeginFetchTargets(WithoutCall(targetCalls, n))
            /\ UNCHANGED settingsTargets
  /\ UNCHANGED <<nextTargetId, absoluteForm, relativeForm>>
  /\ UNCHANGED notSettings

\* the update failed: the catch sets the error and calls fetchTargets, whose
\* first statements set loading and clear the error again
saveTargetUpdateFail(n) ==
  /\ n \in DOMAIN targetCalls /\ targetCalls[n].op = "update"
  /\ BeginFetchTargets(WithoutCall(targetCalls, n))
  /\ UNCHANGED <<targetTable, nextTargetId, settingsTargets, absoluteForm, relativeForm>>
  /\ UNCHANGED notSettings

\* the page's own fields as declared, with nothing in flight
TargetsQuiet ==
  /\ targetTable = <<>>
  /\ nextTargetId = 1
  /\ settingsTargets = <<>>
  /\ targetsLoading = TRUE
  /\ targetsError = ""
  /\ absoluteForm = Form("calories", NULL, NULL)
  /\ relativeForm = Form("protein_percent_calories", NULL, NULL)
  /\ targetCalls = <<>>

\* the tables the page may be opened on
InitialTargetTables ==
  {<<>>, <<TargetRow(1, "protein", "calories", 20, NULL)>>}

\* the page mounted: onMount has called fetchTargets()
TargetsInit ==
  /\ targetTable \in InitialTargetTables
  /\ nextTargetId = Len(targetTable) + 1
  /\ settingsTargets = <<>>
  /\ targetsLoading = TRUE
  /\ targetsError = ""
  /\ absoluteForm = Form("calories", NULL, NULL)
  /\ relativeForm = Form("protein_percent_calories", NULL, NULL)
  /\ targetCalls = <<TargetCall("fetch", 0, "", "", NULL, NULL, "")>>

TargetsNext ==
  \/ \E n \in 1..MaxTargetCalls : fetchTargetsDone(n)
  \/ \E n \in 1..MaxTargetCalls : fetchTargetsFail(n)
  \/ \E nutrient \in absoluteNutrientOptions, b \in FormBounds :
       EditAbsoluteForm(nutrient, b[1], b[2])
  \/ \E type \in DOMAIN relativeTargetMappings, b \in FormBounds :
       EditRelativeForm(type, b[1], b[2])
  \/ addAbsoluteTarget
  \/ addRelativeTarget
  \/ \E n \in 1..MaxTargetCalls : addTargetDone(n)
  \/ \E n \in 1..MaxTargetCalls : addTargetFail(n)
  \/ \E i \in 1..MaxTargetRows : deleteTarget(i)
  \/ \E n \in 1..MaxTargetCalls : deleteTargetOk(n)
  \/ \E n \in 1..MaxTargetCalls : deleteTargetFail(n)
  \/ \E i \in 1..MaxTargetRows, field \in {"min_value", "max_value"}, value \in RowInputs :
       saveTargetUpdate(i, field, value)
  \/ \E n \in 1..MaxTargetCalls : saveTargetUpdateOk(n)
  \/ \E n \in 1..MaxTargetCalls : saveTargetUpdateFail(n)

InitSettings ==
  /\ TargetsInit /\ SharedInit /\ PageQuiet /\ SelQuiet /\ TgtQuiet
  /\ LogQuiet /\ ItemsQuiet /\ KcalQuiet

SpecSettings == InitSettings /\ [][TargetsNext]_vars

InitItems ==
  /\ ItemsInit /\ SharedInit /\ PageQuiet /\ SelQuiet /\ TgtQuiet
  /\ LogQuiet /\ TargetsQuiet /\ KcalQuiet

SpecItems == InitItems /\ [][ItemsNext]_vars

InitKcal ==
  /\ KcalInit /\ SharedInit /\ PageQuiet /\ SelQuiet /\ TgtQuiet
  /\ LogQuiet /\ TargetsQuiet /\ ItemsQuiet

SpecKcal == InitKcal /\ [][KcalNext]_vars

\* ===========================================================================
\*  The specifications
\* ===========================================================================
\* the components that are not the one a specification is about
OthersQuiet == LogQuiet /\ TargetsQuiet /\ ItemsQuiet /\ KcalQuiet

Init == PageInit /\ SelQuiet /\ TgtQuiet /\ OthersQuiet

Next == PageNext

Spec == Init /\ [][Next]_vars

InitSel == SelInit /\ PageQuiet /\ TgtQuiet /\ OthersQuiet

SpecEdit == Init /\ [][EditNext]_vars

SpecSel == InitSel /\ [][SelNext]_vars

\* the two recipe pages: the user opens one of them, and one page is mounted at a
\* time
FinalizeNext ==
  \/ SelQuiet /\ PageNext
  \/ PageQuiet /\ SelNext

SpecFinalize == Init /\ [][FinalizeNext]_vars

\* a recipe name of spaces only
BlankNames == {" "}

\* the selection page with a name input that also takes a name of spaces
BlankNext ==
  \/ SelNext
  \/ \E n \in BlankNames : SetRecipeName(n)

SpecBlank == InitSel /\ [][BlankNext]_vars

InitTgt == SharedInit /\ PageQuiet /\ SelQuiet /\ TgtQuiet /\ OthersQuiet

SpecTgt == InitTgt /\ [][TgtNext]_vars

InitLog ==
  /\ LogInit /\ SharedInit /\ PageQuiet /\ SelQuiet /\ TgtQuiet
  /\ TargetsQuiet /\ ItemsQuiet /\ KcalQuiet

SpecLog == InitLog /\ [][LogNext]_vars

\* ===========================================================================
\*  Properties of the recipe-generation page
\* ===========================================================================
StatusAt(list, i) == list[i].status

WithStatus(list, status) == {i \in DOMAIN list : list[i].status = status}

\* the working list is non-empty and every ingredient in it is done
ListComplete(list) == Len(list) > 0 /\ WithStatus(list, "done") = DOMAIN list

IsRecipeRow(row) == row.serving_unit = "portion"

JoinStep == procPhase = "jobs" /\ procPhase' # "jobs"

\* job i succeeded: it was fulfilled before, or it is the last one and its row
\* is inserted in the joining step
JobSucceeded(i) ==
  \/ procJobs[i].stage = "fulfilled"
  \/ procJobs[i].stage = "pending" /\ catalog' # catalog

\* the ingredient carries the id and the vector of the persisted row of its own name
CarriesOwnRow(ing, cat) ==
  /\ ing.id \in DOMAIN cat
  /\ cat[ing.id].name = ing.name
  /\ ing.nutrition = <<cat[ing.id].nutrition>>

\* C2: when processNewIngredients resolves several new idle ingredients
\* concurrently and some fail, every ingredient whose resolve and insert
\* succeeded ends done with the id and the nutrient vector of its own persisted
\* row, and exactly the failed ones end in error, in every completion order.
C2_JoinKeepsSuccesses ==
  [][ JoinStep =>
        \A i \in DOMAIN procJobs :
          LET ing == generatedIngredients'[i] IN
          /\ ing.name = generatedIngredients[i].name
          /\ IF JobSucceeded(i)
               THEN /\ ing.status = "done"
                    /\ CarriesOwnRow(ing, catalog')
                    /\ \A j \in DOMAIN procJobs \ {i} :
                         generatedIngredients'[j].id # ing.id
               ELSE /\ ing.status = "error"
                    /\ ing.id = 0
                    /\ ing.nutrition = NoNutrition
    ]_vars

\* three new ingredients were resolved in one run: two are done, one failed
C2_Witness ==
  /\ Len(generatedIngredients) = 3
  /\ \A i \in DOMAIN generatedIngredients : generatedIngredients[i].name # ""
  /\ Cardinality(WithStatus(generatedIngredients, "done")) = 2
  /\ Cardinality(WithStatus(generatedIngredients, "error")) = 1
  /\ \A i \in WithStatus(generatedIngredients, "done") :
       CarriesOwnRow(generatedIngredients[i], catalog)
  /\ errorMessage = "processing_failed"
  /\ procPhase = "none"

\* no processing run and no list generation is in flight
PageIdle == procPhase = "none" /\ ~isLoadingRecipe /\ ~isLoadingList

\* new ingredients whose resolution failed
FailedNew(list) == {i \in WithStatus(list, "error") : list[i].name # ""}

\* the page offers an action that works on ingredient i: the retry button of an
\* error row, or the process button, rendered while hasUnprocessedNewItems
ActionOffered(i) ==
  \/ generatedIngredients[i].status = "error"
  \/ generatedIngredients[i].status = "idle" /\ hasUnprocessedNewItems

\* C3: a failed resolution of one new ingredient does not block the others: once
\* processNewIngredients has ended with a new ingredient in error, every other
\* ingredient, matched existing idle ones included, is done, or is being
\* resolved, or the page still offers an action that brings it to done.
C3_FailureDoesNotBlockOthers ==
  (PageIdle /\ FailedNew(generatedIngredients) # {})
    => \A i \in DOMAIN generatedIngredients :
         \/ generatedIngredients[i].status \in {"done", "processing"}
         \/ ActionOffered(i)

\* the retry has started: the ingredient is processing and the retry holds it
RetryAccepted(i) ==
  /\ generatedIngredients'[i].status = "processing"
  /\ \E n \in DOMAIN retries' : retries'[n].index = i

\* the retry in flight on ingredient i succeeds in this step
RetrySucceedsOn(i) == \E n \in DOMAIN retries : retries[n].index = i /\ retrySucceeded(n)

\* C5: every ingredient in error is retryable to success, new or matched
\* existing: with the API key present, retryProcessIngredient starts the
\* resolution of any error ingredient, and when the resolve and the insert
\* succeed the ingredient ends done.
C5_EveryErrorRetryable ==
  [][ \A i \in DOMAIN generatedIngredients :
        /\ (generatedIngredients[i].status = "error" /\ geminiApiKey
              /\ retryProcessIngredient(i)) => RetryAccepted(i)
        /\ RetrySucceedsOn(i) => generatedIngredients'[i].status = "done"
    ]_vars

\* C7: the vector persisted for a recipe is the raw, unrounded sum of
\* multiplier x nutrient value over the done ingredients (thousandths of a gram
\* against the row's tenths).
C7_PersistedVectorIsRawSum ==
  savePending # <<>> =>
    \A k \in NutrientKeys :
      savePending[1].nutrition[k] * 100
        = RawRecipeSum(generatedIngredients, k, Len(generatedIngredients))

TwoDoneOneError(list) ==
  /\ Len(list) = 3
  /\ Cardinality(WithStatus(list, "done")) = 2
  /\ Cardinality(WithStatus(list, "error")) = 1

\* what a refused saveFinalRecipe leaves behind
SaveRefused == catalog' = catalog /\ savePending' = <<>> /\ errorMessage' = "cannot_create"

\* the Create Recipe button is rendered and enabled in the next state
SavePermittedNext == canCreateRecipe' /\ ~isLoadingList' /\ ~isLoadingRecipe'

\* C4: with 2 done ingredients and 1 error ingredient canCreateRecipe is false and
\* saveFinalRecipe is refused; when retryProcessIngredient succeeds on the failing
\* ingredient, canCreateRecipe is true and saveFinalRecipe is permitted.
C4_RetryUnblocksSave ==
  [][ /\ TwoDoneOneError(generatedIngredients) =>
           /\ ~canCreateRecipe
           /\ (saveFinalRecipeStart \/ saveFinalRecipeRejected) => SaveRefused
      /\ \A i \in DOMAIN generatedIngredients :
           (/\ Len(generatedIngredients) = 3
            /\ WithStatus(generatedIngredients, "done") = DOMAIN generatedIngredients \ {i}
            /\ RetrySucceedsOn(i)) => SavePermittedNext
    ]_vars

\* the save was refused on 2 done + 1 error, the retry of the failing ingredient
\* is in flight and its insert can succeed
C4_Witness ==
  /\ Len(generatedIngredients) = 3
  /\ Cardinality(WithStatus(generatedIngredients, "done")) = 2
  /\ \E n \in DOMAIN retries :
       /\ retries[n].index \in WithStatus(generatedIngredients, "processing")
       /\ ENABLED retrySucceeded(n)
  /\ errorMessage = "cannot_create"

ClaimedTransitions ==
  {<<"idle", "processing">>, <<"processing", "done">>, <<"processing", "error">>,
   <<"error", "processing">>}

\* a matched existing ingredient whose row the existing-item fetch loads (or fails
\* to load) in this step
MatchedFetchTransitions == {<<"idle", "done">>, <<"idle", "error">>}

\* the step keeps the objects of the list: nothing is removed, the list is not
\* replaced by a newly generated one
SameObjects ==
  /\ Len(generatedIngredients') >= Len(generatedIngredients)
  /\ ~(isLoadingList /\ ~isLoadingList')

StatusMove(i) == <<generatedIngredients[i].status, generatedIngredients'[i].status>>

StatusChanged == {i \in DOMAIN generatedIngredients : StatusMove(i)[1] # StatusMove(i)[2]}

\* a resolve (job or retry) is in flight for ingredient i
ResolveInFlight(i, jobs, rs) ==
  \/ i \in DOMAIN jobs /\ jobs[i].stage = "pending"
  \/ \E n \in DOMAIN rs : rs[n].index = i

StatusMachineStep(matchedFetchAllowed) ==
  SameObjects =>
    /\ \A i \in DOMAIN generatedIngredients :
         /\ \/ i \notin StatusChanged
            \/ StatusMove(i) \in ClaimedTransitions
            \/ /\ matchedFetchAllowed
               /\ StatusMove(i) \in MatchedFetchTransitions
               /\ generatedIngredients[i].id # 0
               /\ procPhase = "fetch"
         /\ StatusMove(i) = <<"error", "processing">> => retryProcessIngredient(i)
         /\ generatedIngredients[i].status = "done" =>
              /\ generatedIngredients'[i].status = "done"
              /\ ~ResolveInFlight(i, procJobs, retries)
              /\ ~ResolveInFlight(i, procJobs', retries')
    /\ Len(retries') # Len(retries) =>
         /\ Cardinality(StatusChanged) <= 1
         /\ \A i \in StatusChanged :
              ResolveInFlight(i, procJobs, retries) \/ ResolveInFlight(i, procJobs', retries')

\* C6 (as claimed): an ingredient's status changes only along idle -> processing,
\* processing -> done, processing -> error and error -> processing on a retry;
\* once done it never changes and nothing more is resolved or inserted for it; a
\* retry changes the status of no other ingredient.
C6_StatusMachineAsClaimed == [][StatusMachineStep(FALSE)]_vars

\* C6 (amended): the same, where a matched existing ingredient also moves
\* idle -> done or idle -> error when the existing-item fetch of
\* processNewIngredients loads its row.
C6_StatusMachine == [][StatusMachineStep(TRUE)]_vars

\* the fetch has brought a matched ingredient from idle to done, and a retry has
\* taken a failed one from error to processing
C6_Witness ==
  /\ \E i \in WithStatus(generatedIngredients, "done") :
       generatedIngredients[i].name = "" /\ generatedIngredients[i].multiplier # 100
  /\ \E n \in DOMAIN retries :
       retries[n].index \in WithStatus(generatedIngredients, "processing")

\* ===========================================================================
\*  Properties of the selection-mode page
\* ===========================================================================
\* the selected entries whose Catalog Item resolves
ResolvedSelected ==
  {i \in DOMAIN logEntries :
     logEntries[i].id \in selectedLogIds /\ logEntries[i].food_items # NoItem}

RECURSIVE SumOfEntries(_, _)
SumOfEntries(S, k) ==
  IF S = {} THEN 0
  ELSE LET i == CHOOSE j \in S : TRUE IN
       OrZero(logEntries[i].food_items[1].nutrition[k]) * logEntries[i].multiplier
         + SumOfEntries(S \ {i}, k)

SupportedPairs ==
  ({"protein", "fat", "carbs", "fibers"} \X {"calories"})
    \cup ({"mufa", "pufa", "sfa"} \X {"fat"})
    \cup {<<"omega6", "omega3">>, <<"pufa", "sfa">>}

IsRelative(target) == target.nutrient_2 # NoNutrient

SupportedRelative(target) ==
  IsRelative(target) /\ <<target.nutrient_1, target.nutrient_2>> \in SupportedPairs

UnsupportedRelative(target) ==
  IsRelative(target) /\ <<target.nutrient_1, target.nutrient_2>> \notin SupportedPairs

\* the total the target divides by: the derived kcal, or the grams of nutrient_2
DenominatorTotal(target) ==
  IF target.nutrient_2 = "calories" THEN totalCalories(dailyTotals)
  ELSE getNutrientTotal(target.nutrient_2, dailyTotals)

\* the modal has totals to evaluate the targets against
HasTotals == DOMAIN dailyTotals # {}

DescriptiveReasons == {"unsupported_relative_target", "cannot_calculate_kcal_percent"}

C11_OnlyPositiveMultiplierWritten ==
  /\ \A n \in DOMAIN logCalls :
       (logCalls[n].op = "update" /\ logCalls[n].field = "multiplier")
         => logCalls[n].value > 0
  /\ \A i \in DOMAIN foodLog : foodLog[i].multiplier > 0

\* ===========================================================================
\*  Properties of the targets settings page
\* ===========================================================================
\* C19: the pair (nutrient_1, nutrient_2) is unique among the targets after any
\* add, update or delete made on the targets page.
C19_TargetPairsUnique ==
  \A i, j \in DOMAIN targetTable :
    (targetTable[i].nutrient_1 = targetTable[j].nutrient_1
       /\ targetTable[i].nutrient_2 = targetTable[j].nutrient_2) => i = j

\* ===========================================================================
\*  Properties of the food items page
\* ===========================================================================
\* C12: every storage call that fails ends with an error the user can see: a
\* step in which a call of the food items page fails leaves the page's error
\* message set.
C12_FailedCallShowsError ==
  [][(\E n \in 1..MaxItemCalls :
        \/ fetchFoodItemsFail(n)
        \/ saveItemUpdateFail(n)
        \/ deleteItemFail(n)
        \/ saveNewItemFail(n))
       => itemsError' # ""]_vars

\* C20: every Catalog Item has a positive numeric serving_qty, after the create
\* form is saved and after any inline edit.
C20_ServingQtyPositive ==
  \A i \in DOMAIN itemTable : itemTable[i].serving_qty # NULL /\ itemTable[i].serving_qty > 0

\* ===========================================================================
\*  Properties of calculateKcal
\* ===========================================================================
\* the sum protein*3 + max(0, carbs - fibers)*3.7 + fibers*2 + fat*9 of an item, in
\* hundredths of a kcal, absent and null fields read as 0
KcalSum(item) ==
  LET protein == FieldOrZero(item, "protein")
      fat == FieldOrZero(item, "fat")
      carbs == FieldOrZero(item, "carbs")
      fibers == FieldOrZero(item, "fibers")
      net == IF carbs > fibers THEN carbs - fibers ELSE 0
  IN 30 * protein + 37 * net + 20 * fibers + 90 * fat

KcalExample == [protein |-> 100, fat |-> 50, carbs |-> 200, fibers |-> 50]

RECURSIVE SegmentStart(_, _)
SegmentStart(segments, i) ==
  IF i = 1 THEN 0 ELSE SegmentStart(segments, i - 1) + segments[i - 1].widthPercent

\* the indicator is within segment i of the bar, its ends included
IndicatorWithin(bar, i) ==
  LET from == SegmentStart(bar.barSegments, i)
      to == from + bar.barSegments[i].widthPercent
  IN /\ ~NumLess(bar.positionPercent, Num(from, 1))
     /\ ~NumLess(Num(to, 1), bar.positionPercent)

\* the indicator is strictly inside segment i
IndicatorInside(bar, i) ==
  LET from == SegmentStart(bar.barSegments, i)
      to == from + bar.barSegments[i].widthPercent
  IN /\ NumLess(Num(from, 1), bar.positionPercent)
     /\ NumLess(bar.positionPercent, Num(to, 1))

\* the indicator lies in a segment of the colour, and inside no segment of
\* another colour
IndicatorIn(bar, color) ==
  /\ \E i \in DOMAIN bar.barSegments :
       bar.barSegments[i].color = color /\ IndicatorWithin(bar, i)
  /\ \A i \in DOMAIN bar.barSegments :
       IndicatorInside(bar, i) => bar.barSegments[i].color = color

BelowMin(target) ==
  target.min_value # NULL /\ NumLess(target.actualValue[1], Num(target.min_value, 1))

AboveMax(target) ==
  target.max_value # NULL /\ NumLess(Num(target.max_value, 1), target.actualValue[1])

StrictlyInRange(target) ==
  /\ target.min_value # NULL \/ target.max_value # NULL
  /\ target.min_value # NULL => NumLess(Num(target.min_value, 1), target.actualValue[1])
  /\ target.max_value # NULL => NumLess(target.actualValue[1], Num(target.max_value, 1))

Unbounded(target) == target.min_value = NULL /\ target.max_value = NULL

ZonesAsClaimed(target) ==
  LET bar == ProgressBar(target) IN
  /\ StrictlyInRange(target) => IndicatorIn(bar, GREEN_COLOR)
  /\ (BelowMin(target) \/ AboveMax(target)) => IndicatorIn(bar, RED_COLOR)
  /\ Unbounded(target) => /\ Len(bar.barSegments) = 1
                          /\ IndicatorIn(bar, GRAY_COLOR)

ProteinTarget == Target("protein", NoNutrient, 50, 100)

\* C14: for every evaluated target the indicator of the progress bar lies in a
\* green segment when the actual value is strictly inside the defined bounds, in
\* a red segment when it is strictly below a defined min or strictly above a
\* defined max, and in the single gray segment when no bound is defined; with
\* min 50 and max 100, 75 is in a green, 120 and 30 in a red segment.
C14_IndicatorInItsZone ==
  \A i \in DOMAIN calculatedTargets :
    calculatedTargets[i].actualValue # NoValue => ZonesAsClaimed(calculatedTargets[i])

\* the bar of the target 50..100 at 75, with the bars at 120 and at 30, and a
\* target with a max alone that is exceeded
C14_Witness ==
  /\ dailyTotals = ProteinTotals(750)
  /\ \E i \in DOMAIN calculatedTargets :
       /\ targets[i] = ProteinTarget
       /\ StrictlyInRange(calculatedTargets[i])
       /\ ProgressBar(calculatedTargets[i]).barSegments
            = <<BarSegment(RED_COLOR, 50), BarSegment(GREEN_COLOR, 50),
                BarSegment(RED_COLOR, 20)>>
       /\ IndicatorIn(ProgressBar(calculatedTargets[i]), GREEN_COLOR)
  /\ AboveMax(CalculatedTarget(ProteinTarget, ProteinTotals(1200)))
  /\ IndicatorIn(ProgressBar(CalculatedTarget(ProteinTarget, ProteinTotals(1200))),
                 RED_COLOR)
  /\ BelowMin(CalculatedTarget(ProteinTarget, ProteinTotals(300)))
  /\ IndicatorIn(ProgressBar(CalculatedTarget(ProteinTarget, ProteinTotals(300))),
                 RED_COLOR)

\* ===========================================================================
\*  Properties of the display range
\* ===========================================================================
\* the result was evaluated without error
EvaluatedWithoutError(result) ==
  result.calculationError = "" /\ result.actualValue # NoValue

IsAbsoluteTarget(target) == target.nutrient_2 = NoNutrient

\* the seed of the range as the claim has it for an absolute target:
\* max_value * 1.2, else min_value * 2, else 100
SeedOfAbsolute(target) ==
  IF target.max_value # NULL THEN Num(12 * target.max_value, 10)
  ELSE IF target.min_value # NULL THEN Num(2 * target.min_value, 1)
  ELSE Num(100, 1)

\* the seed of a relative target: 100, or for omega6:omega3 max_value * 2, else
\* 10000
SeedOfRelative(target) ==
  IF target.nutrient_1 = "omega6" /\ target.nutrient_2 = "omega3"
    THEN IF target.max_value # NULL THEN Num(2 * target.max_value, 1)
         ELSE Num(10000, 1)
    ELSE Num(100, 1)

\* a seed that is not positive is replaced: by 10 (absolute), by 100 (relative)
FlooredSeed(target) ==
  LET seed == IF IsAbsoluteTarget(target) THEN SeedOfAbsolute(target)
              ELSE SeedOfRelative(target)
  IN IF seed.n > 0 THEN seed
     ELSE IF IsAbsoluteTarget(target) THEN Num(10, 1) ELSE Num(100, 1)

\* the step of the rounding for a range that ends at v
RoundingStep(v) ==
  IF NumLess(v, Num(30, 1)) THEN 1
  ELSE IF NumLess(v, Num(300, 1)) THEN 10
  ELSE IF NumLess(v, Num(3500, 1)) THEN 100
  ELSE 1000

\* shown is v rounded up to the next multiple of the step of v
IsRoundedUp(shown, v) ==
  LET step == RoundingStep(v) IN
  /\ shown.d = 1
  /\ shown.n % step = 0
  /\ ~NumLess(shown, v)
  /\ NumLess(Num(shown.n - step, 1), v)

\* shown is max(seed, actual * 1.05), rounded up
IsDisplayMaxOf(shown, seed, actual) ==
  LET padded == Num(105 * actual.n, 100 * actual.d) IN
  IF NumLess(seed, padded) THEN IsRoundedUp(shown, padded)
  ELSE IsRoundedUp(shown, seed)

SugarMax25 == Target("sugar", NoNutrient, NULL, 25)

\* the two examples: max_value 25 with actual 26.25, and with actual 290
ExamplesOfDisplayMax ==
  /\ DisplayMax(SugarMax25, <<Num(2625, 100)>>) = Num(30, 1)
  /\ DisplayMax(SugarMax25, <<Num(290, 1)>>) = Num(400, 1)

\* C15 as stated: display_min is 0 and display_max is max(initial_max, actual *
\* 1.05) rounded up, where for an absolute target initial_max is max_value * 1.2,
\* else min_value * 2, else 100.
C15_DisplayMaxAsClaimed ==
  \A i \in DOMAIN calculatedTargets :
    (EvaluatedWithoutError(calculatedTargets[i]) /\ IsAbsoluteTarget(targets[i])) =>
      /\ calculatedTargets[i].displayMin = Num(0, 1)
      /\ IsDisplayMaxOf(calculatedTargets[i].displayMax, SeedOfAbsolute(targets[i]),
                        calculatedTargets[i].actualValue[1])

\* C15, amended: for every target evaluated without error, display_min is 0 and
\* display_max is max(initial_max, actual * 1.05) rounded up to the next integer
\* below 30, the next multiple of 10 below 300, of 100 below 3500 and of 1000
\* otherwise, where initial_max is, for an absolute target, max_value * 1.2, else
\* min_value * 2, else 100, and 10 when that is not positive; for a relative
\* target 100, or for omega6:omega3 max_value * 2, else 10000, and 100 when that
\* is not positive.
C15_DisplayMaxRoundedUp ==
  /\ ExamplesOfDisplayMax
  /\ \A i \in DOMAIN calculatedTargets :
       EvaluatedWithoutError(calculatedTargets[i]) =>
         /\ calculatedTargets[i].displayMin = Num(0, 1)
         /\ IsDisplayMaxOf(calculatedTargets[i].displayMax, FlooredSeed(targets[i]),
                           calculatedTargets[i].actualValue[1])

\* 290 g of sugar against a max of 25 and against a max of 0, next to a relative
\* target
C15_Witness ==
  /\ dailyTotals = SugarTotals
  /\ \E i, j, k \in DOMAIN calculatedTargets :
       /\ targets[i] = SugarMax25
       /\ calculatedTargets[i].displayMax = Num(400, 1)
       /\ targets[j] = Target("sugar", NoNutrient, NULL, 0)
       /\ calculatedTargets[j].displayMax = Num(400, 1)
       /\ ~IsAbsoluteTarget(targets[k])
  /\ CalculatedTarget(Target("sugar", NoNutrient, NULL, 0), AllZeroTotals).displayMax
       = Num(10, 1)

\* a defined bound lies inside the display range
BoundShown(bound, result) ==
  bound # NULL => ~NumLess(result.displayMax, Num(bound, 1))

\* C16: for every target evaluated without error, absolute or relative, the
\* display range shows the full meaningful range: display_max > 0,
\* 0 <= actual_value <= display_max, and min_value <= display_max and
\* max_value <= display_max for the bounds that are defined.
C16_RangeShowsValueAndBounds ==
  \A i \in DOMAIN calculatedTargets :
    EvaluatedWithoutError(calculatedTargets[i]) =>
      LET result == calculatedTargets[i]
          actual == result.actualValue[1]
      IN /\ NumLess(Num(0, 1), result.displayMax)
         /\ ~NumLess(actual, Num(0, 1))
         /\ ~NumLess(result.displayMax, actual)
         /\ BoundShown(result.min_value, result)
         /\ BoundShown(result.max_value, result)

\* ===========================================================================
\*  Properties of calculateAllTargets
\* ===========================================================================
\* the result is the result of the target: it carries the target's fields
ResultOf(result, target) ==
  /\ result.nutrient_1 = target.nutrient_1
  /\ result.nutrient_2 = target.nutrient_2
  /\ result.min_value = target.min_value
  /\ result.max_value = target.max_value

\* one result per target in the order of the targets, actualValue null exactly
\* when a reason is present
OneResultPerTarget ==
  /\ Len(calculatedTargets) = Len(targets)
  /\ \A i \in DOMAIN calculatedTargets :
       /\ ResultOf(calculatedTargets[i], targets[i])
       /\ calculatedTargets[i].actualValue = NoValue
            <=> calculatedTargets[i].calculationError # ""

\* C17: for every totals vector, an empty or all-zero one included,
\* calculateAllTargets returns exactly one result per defined target, in the
\* order of the targets, and in each result actual_value is null exactly when an
\* error reason is present.
C17_OneResultPerTarget == OneResultPerTarget

\* the kcal contribution of nutrient_1 as the claim has it, in hundredths of a
\* kcal: protein * 3, fat * 9, fibers * 2 and max(0, carbs - fibers) * 3.7
ContributionAsClaimed(n1, tot) ==
  LET carbs == getNutrientTotal("carbs", tot)
      fibers == getNutrientTotal("fibers", tot)
      net_carbs == IF carbs - fibers > 0 THEN carbs - fibers ELSE 0
  IN CASE n1 = "protein" -> 30 * getNutrientTotal("protein", tot)
       [] n1 = "fat" -> 90 * getNutrientTotal("fat", tot)
       [] n1 = "fibers" -> 20 * fibers
       [] n1 = "carbs" -> 37 * net_carbs

\* C18: for a relative target with nutrient_2 = calories and nutrient_1 among
\* protein, fat, carbs and fibers, actual_value is 100 * (kcal contribution of
\* nutrient_1) / Kcal Derivation(totals), the contribution of carbs being
\* max(0, carbs - fibers) * 3.7 as in the Kcal Derivation (a derived kcal of 0
\* is the zero denominator); any other nutrient_1 makes the target fail.
C18_KcalPercentOfContribution ==
  HasTotals =>
    \A i \in DOMAIN targets :
      targets[i].nutrient_2 = "calories" =>
        IF targets[i].nutrient_1 \in {"protein", "fat", "carbs", "fibers"}
          THEN totalCalories(dailyTotals) # 0 =>
                 calculatedTargets[i].actualValue =
                   <<Num(100 * ContributionAsClaimed(targets[i].nutrient_1, dailyTotals),
                         100 * totalCalories(dailyTotals))>>
          ELSE /\ calculatedTargets[i].actualValue = NoValue
               /\ calculatedTargets[i].calculationError # ""

\* ===========================================================================
\*  Properties of copyLog
\* ===========================================================================
\* the rows of food_log with the id
StoredEntries(id) == {j \in DOMAIN foodLog : foodLog[j].id = id}

\* copyLog(i) sends an insert: the insert carries the Catalog Item and the
\* multiplier of the entry it copies, as stored
CopySendsSource ==
  \A i \in 1..MaxLogRows :
    (copyLog(i) /\ Len(logCalls') = Len(logCalls) + 1) =>
      LET call == logCalls'[Len(logCalls')] IN
      /\ call.op = "insert"
      /\ \E j \in StoredEntries(recentLogs[i].id) :
           /\ call.id = foodLog[j].food_item_id
           /\ call.value = foodLog[j].multiplier
      /\ foodLog' = foodLog

\* the insert of a copy succeeds: exactly one entry is added, the newest, with
\* what the insert carries; every other entry is as it was
CopyAddsOneEntry ==
  \A n \in 1..MaxLogCalls :
    (insertLogOk(n) /\ logCalls[n].caller = "copy") =>
      /\ Len(foodLog') = Len(foodLog) + 1
      /\ Tail(foodLog') = foodLog
      /\ Head(foodLog').food_item_id = logCalls[n].id
      /\ Head(foodLog').multiplier = logCalls[n].value
      /\ \A j \in DOMAIN foodLog : Head(foodLog').id # foodLog[j].id

\* the insert of a copy fails: no entry is added and an error is reported
FailedCopyAddsNone ==
  \A n \in 1..MaxLogCalls :
    (insertLogFail(n) /\ logCalls[n].caller = "copy") =>
      /\ foodLog' = foodLog
      /\ logError' # ""

FetchInFlight == \E n \in DOMAIN logCalls : logCalls[n].op = "fetch"

\* no entry is in the displayed list twice
NoEntryTwice ==
  \A i, j \in DOMAIN recentLogs : recentLogs[i].id = recentLogs[j].id => i = j

\* with no fetch in flight, the list holds the pages 0 .. currentPage, the last
\* of which may be short or empty
CurrentPageIsLastPage ==
  ~FetchInFlight =>
    /\ currentPage * logsPerPage <= Len(recentLogs)
    /\ Len(recentLogs) <= (currentPage + 1) * logsPerPage

\* C25: the displayed list never contains the same log entry twice, currentPage
\* is never negative and, once the fetches have ended, is the index of the last
\* page displayed, under any interleaving of load-more requests, failed ones
\* included, with the refreshes that logging, copying, editing and deleting
\* trigger.
C25_PagingConsistent ==
  /\ NoEntryTwice
  /\ currentPage >= 0
  /\ CurrentPageIsLastPage

\* ===========================================================================
\*  Properties of deleteIngredient
\* ===========================================================================
\* the ingredients that count for the totals: done, in the order of the list
DoneIngredients(list) == SelectSeq(list, LAMBDA ing : ing.status = "done")

\* the sum of key k over a list of done ingredients, in thousandths of a gram
RECURSIVE SumOfDone(_, _)
SumOfDone(done, k) ==
  IF done = <<>> THEN 0
  ELSE LET ing == Head(done)
           amount == IF ing.nutrition = NoNutrition THEN 0
                     ELSE IF ing.nutrition[1][k] = NULL THEN 0 ELSE ing.nutrition[1][k]
           multiplier == IF ing.multiplier = NULL THEN 100 ELSE ing.multiplier
       IN amount * multiplier + SumOfDone(Tail(done), k)

\* the stored totals are the sums over the done ingredients of the list, each
\* rounded to whole grams
TotalsAreSumOfDone(list, stored) ==
  \A k \in NutrientKeys :
    LET sum == SumOfDone(DoneIngredients(list), k) IN
    /\ 100 * stored.vec[k] <= sum + 500
    /\ sum + 500 < 100 * (stored.vec[k] + 10)

\* a retry is in flight for an ingredient of the list other than the one at index
RetryOfAnother(index) ==
  \E n \in DOMAIN retries : retries[n].index \notin {Detached, index}

\* the step deleteIngredient(index): the chosen ingredient leaves the list, the
\* others are as they were and in the same order, nothing is written to storage,
\* and the totals are those of the remaining done ingredients
DeleteRemovesOne ==
  \A index \in 1..MaxIngredients :
    deleteIngredient(index) =>
      /\ Len(generatedIngredients') = Len(generatedIngredients) - 1
      /\ \A j \in DOMAIN generatedIngredients' :
           generatedIngredients'[j] = generatedIngredients[IF j < index THEN j ELSE j + 1]
      /\ catalog' = catalog
      /\ TotalsAreSumOfDone(generatedIngredients', recipeTotals')

\* every retry in flight whose ingredient is still in the list holds that
\* ingredient: the one it was started for, in processing
RetryHoldsItsIngredient ==
  \A n \in DOMAIN retries :
    retries[n].index # Detached =>
      /\ retries[n].index \in DOMAIN generatedIngredients
      /\ generatedIngredients[retries[n].index].name = retries[n].name
      /\ generatedIngredients[retries[n].index].status = "processing"

\* the end of a retry changes the ingredient it holds and no other, and the
\* totals are again those of the done ingredients
RetryEndsOnItsIngredient ==
  \A n \in 1..MaxRetriesInFlight :
    (retrySucceeded(n) \/ retryFailed(n)) =>
      /\ Len(generatedIngredients') = Len(generatedIngredients)
      /\ \A j \in DOMAIN generatedIngredients :
           j # retries[n].index => generatedIngredients'[j] = generatedIngredients[j]
      /\ TotalsAreSumOfDone(generatedIngredients', recipeTotals')

HasIdle(list) == \E i \in DOMAIN list : list[i].status = "idle"

\* no request of the page is in flight
NothingInFlight ==
  /\ ~isLoadingList /\ ~isLoadingRecipe /\ ~isFetchingExisting
  /\ procPhase = "none"
  /\ retries = <<>>
  /\ addPending = {}
  /\ savePending = <<>>

\* the button that starts processNewIngredients is rendered and enabled
ProcessOffered == hasUnprocessedNewItems /\ ~isLoadingList /\ ~isLoadingRecipe

\* the only ingredients that are not done are matched existing items, idle
OnlyMatchedIdleLeft(list) ==
  /\ HasIdle(list)
  /\ \A i \in DOMAIN list : list[i].status # "done" =>
       (list[i].status = "idle" /\ list[i].id # 0)

\* C23: whenever the working list contains an idle ingredient and no operation
\* is in flight, the page offers the action that resolves it (the button of
\* processNewIngredients), also when the only unresolved ingredients are
\* matched existing items.
C23_IdleIngredientHasAction ==
  (HasIdle(generatedIngredients) /\ NothingInFlight) => ProcessOffered

\* ===========================================================================
\*  Properties of saveFinalRecipe against an addExistingIngredient in flight
\* ===========================================================================
\* the step in which the recipe insert succeeds: the row that reaches storage
\* holds the totals of the ingredients that are in the list when it is cleared
SavedVectorIsOfTheList ==
  saveFinalRecipeOk =>
    /\ savePending[1].nutrition = calculateRecipeTotals(generatedIngredients).vec
    /\ generatedIngredients' = <<>>

\* a fetch of addExistingIngredient that was in flight during a save does not
\* put its ingredient into the list that the save has cleared
NoneReappears ==
  \A id \in DOMAIN allFoodItems :
    (addExistingIngredientDone(id) /\ successMessage = "recipe_created") =>
      generatedIngredients # <<>>

\* C24: a successful saveFinalRecipe persists a vector computed from exactly the
\* ingredients in the working list and leaves the list empty, under every
\* interleaving with an addExistingIngredient fetch in flight during the save:
\* no ingredient enters the list, is left out of the persisted recipe and is
\* discarded by the clear, and none reappears in the list after it was cleared.
C24_SaveIsAtomic == [][SavedVectorIsOfTheList /\ NoneReappears]_vars

\* the first half alone
C24_SavedVectorIsOfTheList == [][SavedVectorIsOfTheList]_vars

\* the second half alone
C24_NoneReappears == [][NoneReappears]_vars

\* ===========================================================================
\*  Properties of a multiplier set by the user
\* ===========================================================================
\* the multiplier typed into a row counts at once: the stored totals are those of
\* the done ingredients with the new multiplier
EditedMultiplierCounts ==
  \A index \in 1..MaxIngredients, m \in UserMultipliers :
    editMultiplier(index, m) =>
      /\ generatedIngredients'[index].multiplier = m
      /\ TotalsAreSumOfDone(generatedIngredients', recipeTotals')

\* the row at index is resolved by this step: same position, same name, not done
\* before and done after
ResolvedAt(index) ==
  /\ index \in DOMAIN generatedIngredients
  /\ Len(generatedIngredients') = Len(generatedIngredients)
  /\ generatedIngredients'[index].name = generatedIngredients[index].name
  /\ generatedIngredients[index].status # "done"
  /\ generatedIngredients'[index].status = "done"

\* the multiplier of the row at index is one the user typed (no computed or
\* default multiplier of the model has such a value)
UserSetAt(index) ==
  /\ index \in DOMAIN generatedIngredients
  /\ generatedIngredients[index].multiplier \in UserMultipliers

\* resolving a row keeps a multiplier the user has typed
UserMultiplierKept ==
  \A index \in 1..MaxIngredients :
    (UserSetAt(index) /\ ResolvedAt(index)) =>
      generatedIngredients'[index].multiplier = generatedIngredients[index].multiplier

\* the vector sent to storage is that of the list with the user's multipliers
SavedWithUserMultipliers ==
  saveFinalRecipeStart => TotalsAreSumOfDone(generatedIngredients, [vec |-> savePending'[1].nutrition])

\* C26: a multiplier the user sets on an ingredient of the working list is the
\* multiplier used for that ingredient in the recipe totals and in the persisted
\* recipe: resolving the ingredient afterwards (processNewIngredients or
\* retryProcessIngredient) does not replace it with a recomputed one.
C26_UserMultiplierIsUsed ==
  [][EditedMultiplierCounts /\ UserMultiplierKept /\ SavedWithUserMultipliers]_vars

\* the resolution steps alone
C26_UserMultiplierKept == [][UserMultiplierKept]_vars

\* the edit and the save alone
C26_EditedMultiplierCounts == [][EditedMultiplierCounts /\ SavedWithUserMultipliers]_vars

\* ===========================================================================
\*  Properties of the serving basis given by a retry
\* ===========================================================================
\* the serving basis and multiplier the claim gives for a quantity and a unit:
\* 100 for g, 1 for dl, pcs and portion, the ingredient's own unit
BasisAsClaimed(ing, quantity, unit) ==
  /\ ing.serving_qty = (IF unit = "g" THEN 100 ELSE 1)
  /\ ing.serving_unit = unit
  /\ ing.multiplier * ing.serving_qty = 100 * quantity

\* a retry that succeeds on an ingredient still in the list
RetryResolves(n) ==
  /\ retrySucceeded(n)
  /\ retries[n].index # Detached

\* the ingredient a resolution of processNewIngredients would have produced
AsProcessed(ing) ==
  [serving_qty |-> StandardQty(ing.unit), serving_unit |-> StandardUnit(ing.unit),
   multiplier |-> QuantityMultiplier(ing.quantity, StandardQty(ing.unit))]

\* C27: an ingredient resolved by retryProcessIngredient ends with the same
\* serving basis and the same multiplier that processNewIngredients would have
\* given it for its quantity and unit: standard quantity 100 for g and 1 for dl,
\* pcs and portion, serving unit equal to the ingredient's unit, multiplier =
\* quantity / standard quantity.
C27_RetryGivesSameBasis ==
  [][\A n \in 1..MaxRetriesInFlight :
       RetryResolves(n) =>
         LET before == generatedIngredients[retries[n].index]
             after == generatedIngredients'[retries[n].index]
         IN /\ after.serving_qty = AsProcessed(before).serving_qty
            /\ after.serving_unit = AsProcessed(before).serving_unit
            /\ after.multiplier = AsProcessed(before).multiplier
            /\ BasisAsClaimed(after, before.quantity, before.unit)]_vars

\* what processNewIngredients gives is what the claim says it gives
C27_ProcessedBasisAsClaimed ==
  [][\A i \in 1..MaxIngredients :
       (ResolvedAt(i) /\ \E j \in 1..MaxIngredients : JobFulfilled(j)) =>
         BasisAsClaimed(generatedIngredients'[i], generatedIngredients[i].quantity,
                        generatedIngredients[i].unit)]_vars

\* ===========================================================================
\*  Properties of a recipe insert that fails
\* ===========================================================================
\* the step that ends the save of the generation page
SaveEnds == savePending # <<>> /\ savePending' = <<>>

\* the step that ends the save of the selection page
CreateEnds == createPending # <<>> /\ createPending' = <<>>

\* the row reached storage in this step
Stored(row) == catalog' # catalog /\ \E id \in DOMAIN catalog' \ DOMAIN catalog : catalog'[id] = row

\* generation page: the save ends either with the row stored and the list
\* cleared, or with nothing stored, the list, its totals and the name as they
\* were, an error shown, the busy flag reset and Create Recipe offered again
SaveEndsKeepingWork ==
  SaveEnds =>
    \/ /\ Stored(savePending[1])
       /\ generatedIngredients' = <<>>
    \/ /\ catalog' = catalog
       /\ generatedIngredients' = generatedIngredients
       /\ generatedIngredients' # <<>>
       /\ recipeTotals' = recipeTotals
       /\ recipeName' = recipeName
       /\ errorMessage' # ""
       /\ ~isLoadingRecipe'
       /\ canCreateRecipe' /\ ~isLoadingList'

\* selection page: the same, for the selection and the recipe name; Create
\* Recipe is offered again unless the user emptied the name or the selection
\* while the insert was in flight
CreateEndsKeepingWork ==
  CreateEnds =>
    \/ /\ Stored(createPending[1])
       /\ selectedLogIds' = {} /\ recipeName' = ""
    \/ /\ catalog' = catalog
       /\ selectedLogIds' = selectedLogIds
       /\ recipeName' = recipeName
       /\ totals' = totals
       /\ errorMessage' # ""
       /\ ~isCreating'
       /\ (recipeName # "" /\ selectedLogIds # {}) => ~isCreateDisabled'

\* while an insert is in flight no step but its success empties the list
ClearedOnlyBySuccess ==
  (savePending # <<>> /\ generatedIngredients # <<>> /\ generatedIngredients' = <<>>) =>
    Stored(savePending[1])

C28_WitnessSelection ==
  /\ errorMessage = "create_failed"
  /\ selectedLogIds # {}
  /\ ~isCreateDisabled

\* ===========================================================================
\*  Properties of the names of inserted catalog items
\* ===========================================================================
Named(row) == Trim(row.name) # ""

\* every row of food_items has a name
CatalogNamed ==
  /\ \A id \in DOMAIN catalog : Named(catalog[id])
  /\ \A i \in DOMAIN itemTable : Named(itemTable[i])

\* no insert in flight carries a row without a name: the generation page's
\* recipe, the selection page's recipe, the manual entry
NoUnnamedWrite ==
  /\ savePending # <<>> => Named(savePending[1])
  /\ createPending # <<>> => Named(createPending[1])
  /\ \A n \in DOMAIN itemCalls :
       itemCalls[n].op = "insert" => Named(itemCalls[n].row[1])

\* C29: every Catalog Item inserted by any creation path (manual entry,
\* selection-mode recipe, AI-mode recipe) has a non-empty name after trimming;
\* an attempt to create one with an empty or whitespace-only name is rejected
\* before any storage write.
C29_InsertedItemsAreNamed == CatalogNamed /\ NoUnnamedWrite

\* the recipe of the generation page alone
C29_GeneratedRecipeNamed ==
  /\ savePending # <<>> => Named(savePending[1])
  /\ isLoadingList \/ generatedIngredients # <<>> \/ isLoadingRecipe =>
       \A id \in DOMAIN catalog : Named(catalog[id])

\* the recipe of the selection page alone
C29_SelectedRecipeNamed ==
  /\ createPending # <<>> => Named(createPending[1])
  /\ ~isLoading => \A id \in DOMAIN catalog : Named(catalog[id])

\* the manual entry alone
C29_ManualEntryNamed ==
  /\ \A i \in DOMAIN itemTable : Named(itemTable[i])
  /\ \A n \in DOMAIN itemCalls :
       itemCalls[n].op = "insert" => Named(itemCalls[n].row[1])

====
